---- MODULE Spec2Model ----
(***************************************************************************)
(* Model of the AM provenance chaincode (am_provenance.go): the world      *)
(* state is one key/value space shared by Asset records (key = asset id)   *)
(* and ProvenanceEvent records (key = "EVENT_" + transaction id).          *)
(*                                                                         *)
(* Strings that are used as keys are sequences of tokens, so that the      *)
(* source's string concatenation ("EVENT_" + txID, "NAIVE_" + assetID) is  *)
(* sequence concatenation and key equality is string equality.             *)
(***************************************************************************)
EXTENDS Integers, Sequences, FiniteSets, TLC

VARIABLES store, nextTx, ret, version, pending, status, pc, testIdx, chunkStart, batchNo, results, issued, prog, opens, closes, exitCode, histIdx

vars == <<store, nextTx, ret, version, pending, status, pc, testIdx, chunkStart, batchNo, results, issued, prog, opens, closes, exitCode, histIdx>>

\* the state of transactions that run concurrently (used by SpecConcurrent)
concVars == <<version, pending, status>>

\* the client program that runs, its connection to the ledger (how often it
\* was opened and closed), its exit code and the counter of its history loop
runVars == <<prog, opens, closes, exitCode, histIdx>>

\* the state of the client programs (used by SpecHarness, SpecResource and
\* SpecRead)
harnessVars == <<pc, testIdx, chunkStart, batchNo, results, issued, runVars>>

(* ---------------------------- bounds ----------------------------------- *)

\* number of transactions (invocations of a writing operation) in a run
MaxTx == 3

(* ------------------------ input domains -------------------------------- *)

\* transaction ids handed out by the execution context, in order of use
TxNames == <<"t1", "t2", "t3", "t4", "t5", "t6", "t7", "t8", "t9", "t10", "t11", "t12">>

TxID(n) == <<TxNames[n]>>

TxIDs == {TxID(n) : n \in 1..MaxTx}

\* the key recordEvent derives from a transaction id
EventKey(txID) == <<"EVENT_">> \o txID

\* the key CreateMaterialCertification_Naive derives from its assetID
NaiveKey(assetID) == <<"NAIVE_">> \o assetID

BaseIds == {<<"A">>}

\* asset-id arguments a client can pass: a plain id, an id that carries the
\* naive prefix, and an id that spells the event key of a transaction (a
\* client computes the id of its transaction before it submits it)
ArgIds == BaseIds \cup {NaiveKey(b) : b \in BaseIds} \cup {EventKey(TxID(2))}

\* caller identities (MSP ids): the organisation the clients of the repository
\* connect as
MSPIDs == {"Org1MSP"}

\* readings of the peer's wall clock, formatted
Times == {"T1"}

\* two readings of the peer's wall clock, where the time of an event matters
PeerTimes == {"T1", "T2"}

\* descriptive string arguments and evidence hashes / payloads
Descs == {"d"}

Hashes == {"h"}

TestResults == {"CERTIFIED_FIT_FOR_USE", "PASS"}

\* the call of the external store (or identity service) that fails in one
\* invocation, if any
Faults == {"none", "mspid", "read", "putEvent", "putAsset"}

(* ------------------------ error values --------------------------------- *)

OK == "ok"

ErrMSPID == "failed to get client MSPID"

ErrRead == "failed to read from world state"

ErrExists == "the asset already exists"

ErrNotExist == "the asset does not exist"

ErrPutEvent == "failed to put event state"

ErrPutState == "put state failed"

(* ------------------------ data structures ------------------------------ *)

\* Go field name -> JSON member name of ProvenanceEvent
EventTags ==
  [ EventType |-> "eventType", AgentID |-> "agentID", Timestamp |-> "timestamp",
    OffChainDataHash |-> "offChainDataHash",
    OnChainDataPayload |-> "onChainDataPayload",
    MaterialType |-> "materialType", MaterialBatchID |-> "materialBatchID",
    SupplierID |-> "supplierID", DesignFileHash |-> "designFileHash",
    DesignFileVersion |-> "designFileVersion", MachineID |-> "machineID",
    MaterialBatchUsedID |-> "materialBatchUsedID", BuildJobID |-> "buildJobID",
    PrimaryInspectionResult |-> "primaryInspectionResult",
    TestStandardApplied |-> "testStandardApplied",
    FinalTestResult |-> "finalTestResult", CertificateID |-> "certificateID" ]

EventFields == DOMAIN EventTags

\* the fields of ProvenanceEvent tagged omitempty
OmitEmpty == EventFields \ {"EventType", "AgentID", "Timestamp"}

\* the zero value of ProvenanceEvent
ProvenanceEvent == [f \in EventFields |-> ""]

\* the zero value of Asset
Asset == [AssetID |-> <<>>, Owner |-> "", CurrentLifecycleStage |-> "", HistoryTxIDs |-> <<>>]

\* JSON member names of Asset
AssetTags == {"assetID", "owner", "currentLifecycleStage", "historyTxIDs"}

\* faulty variant of MarshalEvent: no member is omitempty, every member is
\* written
MarshalEvent_NoOmit(e) ==
  LET FieldOf(n) == CHOOSE f \in EventFields : EventTags[f] = n
  IN  [n \in {EventTags[f] : f \in EventFields} |-> e[FieldOf(n)]]

\* json.Marshal of a ProvenanceEvent: a JSON object is a function from
\* member names to values; omitempty members are left out when empty
MarshalEvent(e) ==
  LET present == {f \in EventFields : f \notin OmitEmpty \/ e[f] # ""}
      FieldOf(n) == CHOOSE f \in present : EventTags[f] = n
  IN  [n \in {EventTags[f] : f \in present} |-> e[FieldOf(n)]]

\* faulty variant of UnmarshalEvent: an absent member becomes the sentinel
\* "N/A"
UnmarshalEvent_Sentinel(j) ==
  [f \in EventFields |-> IF EventTags[f] \in DOMAIN j THEN j[EventTags[f]] ELSE "N/A"]

\* json.Unmarshal into a ProvenanceEvent: members that are absent leave the
\* zero value, members the struct does not declare are ignored
UnmarshalEvent(j) ==
  [f \in EventFields |-> IF EventTags[f] \in DOMAIN j THEN j[EventTags[f]] ELSE ""]

\* json.Marshal of an Asset (no member is omitempty)
MarshalAsset(a) ==
  [ assetID |-> a.AssetID, owner |-> a.Owner,
    currentLifecycleStage |-> a.CurrentLifecycleStage,
    historyTxIDs |-> a.HistoryTxIDs ]

\* json.Unmarshal into an Asset
UnmarshalAsset(j) ==
  [ AssetID |-> IF "assetID" \in DOMAIN j THEN j["assetID"] ELSE <<>>,
    Owner |-> IF "owner" \in DOMAIN j THEN j["owner"] ELSE "",
    CurrentLifecycleStage |->
      IF "currentLifecycleStage" \in DOMAIN j THEN j["currentLifecycleStage"] ELSE "",
    HistoryTxIDs |-> IF "historyTxIDs" \in DOMAIN j THEN j["historyTxIDs"] ELSE <<>> ]

(* ------------------------ the world state ------------------------------ *)

\* the world state before any transaction: no key is bound
EmptyState == [k \in {} |-> ProvenanceEvent]

\* stub.PutState(key, value)
PutState(st, key, value) ==
  [k \in DOMAIN st \cup {key} |-> IF k = key THEN value ELSE st[k]]

\* faulty variant of AssetExists: the existence check never finds the key
AssetExists_NeverFound(st, id) == FALSE

\* AssetExists: stub.GetState(id) # nil
AssetExists(st, id) == id \in DOMAIN st

\* the version of each bound key: the id of the transaction that wrote it last
EmptyVersions == [k \in {} |-> <<>>]

\* the outcome of each transaction that has ended: no transaction has
NoStatus == [t \in {} |-> ""]

\* the calls the harness has issued, by transaction id: none at the start
NoCalls == [t \in {} |-> <<>>]

\* the response slot of the client: empty while no call is outstanding,
\* else what the invocation just made returned
NoRet ==
  [ op |-> "none", assetID |-> <<>>, key |-> <<>>, txID |-> <<>>, caller |-> "",
    err |-> OK, exists |-> FALSE, asset |-> Asset, history |-> <<>>, now |-> "" ]

\* the state in which the client program named program starts
InitProgram(program) ==
  /\ store = EmptyState
  /\ nextTx = 1
  /\ ret = NoRet
  /\ version = EmptyVersions
  /\ pending = {}
  /\ status = NoStatus
  /\ pc = "start"
  /\ testIdx = 1
  /\ chunkStart = 0
  /\ batchNo = 0
  /\ results = <<>>
  /\ issued = NoCalls
  /\ prog = program
  /\ opens = 0
  /\ closes = 0
  /\ exitCode = 0
  /\ histIdx = 0

\* the ledger is empty; the client program is the throughput harness
Init == InitProgram("part_000")

(* ------------------------ chaincode functions -------------------------- *)

\* faulty variant of recordEvent: an event that carries a timestamp keeps it
recordEvent_KeepTimestamp(st, txID, event, now, fault) ==
  LET stamped == IF event.Timestamp = "" THEN [event EXCEPT !.Timestamp = now] ELSE event
  IN  IF fault = "putEvent"
      THEN [txID |-> <<>>, err |-> ErrPutEvent, store |-> st]
      ELSE [txID |-> txID, err |-> OK,
            store |-> PutState(st, EventKey(txID), MarshalEvent(stamped))]

\* recordEvent: stamps the event with the peer's clock, marshals it and puts
\* it under "EVENT_" + txID; returns the txID, or an error and no write
recordEvent(st, txID, event, now, fault) ==
  LET stamped == [event EXCEPT !.Timestamp = now]
  IN  IF fault = "putEvent"
      THEN [txID |-> <<>>, err |-> ErrPutEvent, store |-> st]
      ELSE [txID |-> txID, err |-> OK,
            store |-> PutState(st, EventKey(txID), MarshalEvent(stamped))]

\* faulty variant of ReadAsset: no check for a missing value, the zero Asset
\* is returned as if it had been read
ReadAsset_NoNilCheck(st, assetID, fault) ==
  IF fault = "read" THEN [err |-> ErrRead, asset |-> Asset]
  ELSE [err |-> OK,
        asset |-> IF assetID \in DOMAIN st THEN UnmarshalAsset(st[assetID]) ELSE Asset]

\* faulty variant of ReadAsset: strict decoding, a value that lacks a member
\* of Asset is an error
ReadAsset_StrictDecode(st, assetID, fault) ==
  IF fault = "read" THEN [err |-> ErrRead, asset |-> Asset]
  ELSE IF assetID \notin DOMAIN st THEN [err |-> ErrNotExist, asset |-> Asset]
  ELSE IF ~(AssetTags \subseteq DOMAIN st[assetID]) THEN [err |-> ErrNotExist, asset |-> Asset]
  ELSE [err |-> OK, asset |-> UnmarshalAsset(st[assetID])]

\* ReadAsset: the asset decoded from the value under assetID
ReadAsset(st, assetID, fault) ==
  IF fault = "read" THEN [err |-> ErrRead, asset |-> Asset]
  ELSE IF assetID \notin DOMAIN st THEN [err |-> ErrNotExist, asset |-> Asset]
  ELSE [err |-> OK, asset |-> UnmarshalAsset(st[assetID])]

\* faulty variant of the loop of GetAssetHistory: the loop ends at the first
\* entry whose read fails or finds nothing (break instead of continue)
RECURSIVE HistoryLoop_StopAtBad(_, _, _, _, _)
HistoryLoop_StopAtBad(st, txIDs, i, history, unreadable) ==
  IF i > Len(txIDs) THEN history
  ELSE IF txIDs[i] \in unreadable \/ EventKey(txIDs[i]) \notin DOMAIN st THEN history
  ELSE HistoryLoop_StopAtBad(st, txIDs, i + 1, Append(history, UnmarshalEvent(st[EventKey(txIDs[i])])), unreadable)

\* the loop of GetAssetHistory from entry i on: one point read per entry, in
\* list order; an entry whose read fails or finds nothing is skipped (the
\* values the chaincode writes under any key are JSON objects that share no
\* member name of a different type with ProvenanceEvent, so decoding a value
\* that was found does not fail)
RECURSIVE HistoryLoop(_, _, _, _, _)
HistoryLoop(st, txIDs, i, history, unreadable) ==
  IF i > Len(txIDs) THEN history
  ELSE LET eventKey == EventKey(txIDs[i])
       IN  IF txIDs[i] \in unreadable
           THEN HistoryLoop(st, txIDs, i + 1, history, unreadable)
           ELSE IF eventKey \notin DOMAIN st
           THEN HistoryLoop(st, txIDs, i + 1, history, unreadable)
           ELSE HistoryLoop(st, txIDs, i + 1,
                            Append(history, UnmarshalEvent(st[eventKey])), unreadable)

\* faulty variant of GetAssetHistory: the loop starts at the second entry
GetAssetHistory_SkipFirst(st, assetID, fault, unreadable) ==
  LET r == ReadAsset(st, assetID, fault)
  IN  IF r.err # OK THEN [err |-> r.err, history |-> <<>>]
      ELSE [err |-> OK,
            history |-> HistoryLoop(st, r.asset.HistoryTxIDs, 2, <<>>, unreadable)]

\* GetAssetHistory: the events of the asset's history
GetAssetHistory(st, assetID, fault, unreadable) ==
  LET r == ReadAsset(st, assetID, fault)
  IN  IF r.err # OK THEN [err |-> r.err, history |-> <<>>]
      ELSE [err |-> OK,
            history |-> HistoryLoop(st, r.asset.HistoryTxIDs, 1, <<>>, unreadable)]

\* what an invocation leaves in ret
Outcome(op, assetID, key, txID, caller, err) ==
  [NoRet EXCEPT !.op = op, !.assetID = assetID, !.key = key, !.txID = txID,
                !.caller = caller, !.err = err]

\* faulty variant of PutAsset: the error of recordEvent is returned, but
\* the asset is put all the same
PutAsset_AfterFailedEvent(o, r, fault, asset) ==
  IF r.err # OK
  THEN store' = PutState(store, o.key, MarshalAsset(asset)) /\ ret' = [o EXCEPT !.err = r.err]
  ELSE IF fault = "putAsset"
  THEN store' \in {store, r.store} /\ ret' = [o EXCEPT !.err = ErrPutState]
  ELSE /\ store' = PutState(r.store, o.key, MarshalAsset(asset))
       /\ ret' = [o EXCEPT !.err = OK]

\* the end of every writing operation: return recordEvent's error, else
\* marshal the asset and put it under its key; a failed asset put leaves
\* what the store's transaction boundary leaves of the invocation (the
\* event write, or nothing)
PutAsset(o, r, fault, asset) ==
  IF r.err # OK
  THEN store' = store /\ ret' = [o EXCEPT !.err = r.err]
  ELSE IF fault = "putAsset"
  THEN store' \in {store, r.store} /\ ret' = [o EXCEPT !.err = ErrPutState]
  ELSE /\ store' = PutState(r.store, o.key, MarshalAsset(asset))
       /\ ret' = [o EXCEPT !.err = OK]

\* faulty variant of appendTxID: the new entry goes to the front
appendTxID_Front(HistoryTxIDs, txID) == <<txID>> \o HistoryTxIDs

\* append(asset.HistoryTxIDs, txID)
appendTxID(HistoryTxIDs, txID) == Append(HistoryTxIDs, txID)

\* CreateMaterialCertification (lightweight model)
CreateMaterialCertification(assetID, materialType, materialBatchID, supplierID, offChainDataHash, clientMSPID, now, fault) ==
  /\ ret = NoRet
  /\ nextTx <= MaxTx
  /\ nextTx' = nextTx + 1
  /\ UNCHANGED <<concVars, harnessVars>>
  /\ LET o == Outcome("CreateMaterialCertification", assetID, assetID, TxID(nextTx),
                      clientMSPID, OK)
         event == [ProvenanceEvent EXCEPT
                     !.EventType = "MATERIAL_CERTIFICATION_LIGHTWEIGHT",
                     !.AgentID = clientMSPID,
                     !.OffChainDataHash = offChainDataHash,
                     !.MaterialType = materialType,
                     !.MaterialBatchID = materialBatchID,
                     !.SupplierID = supplierID]
         r == recordEvent(store, TxID(nextTx), event, now, fault)
         asset == [AssetID |-> assetID, Owner |-> clientMSPID,
                   CurrentLifecycleStage |-> "MATERIAL_CERTIFIED",
                   HistoryTxIDs |-> <<r.txID>>]
     IN  IF fault = "mspid" THEN store' = store /\ ret' = [o EXCEPT !.err = ErrMSPID]
         ELSE IF fault = "read" THEN store' = store /\ ret' = [o EXCEPT !.err = ErrRead]
         ELSE IF AssetExists(store, assetID)
         THEN store' = store /\ ret' = [o EXCEPT !.err = ErrExists]
         ELSE PutAsset(o, r, fault, asset)

\* CreateMaterialCertification_Naive: the whole payload goes on chain, the
\* asset goes under "NAIVE_" + assetID
CreateMaterialCertification_Naive(assetID, materialType, materialBatchID, supplierID, fullDataPayload, clientMSPID, now, fault) ==
  /\ ret = NoRet
  /\ nextTx <= MaxTx
  /\ nextTx' = nextTx + 1
  /\ UNCHANGED <<concVars, harnessVars>>
  /\ LET naiveAssetID == NaiveKey(assetID)
         o == Outcome("CreateMaterialCertification_Naive", assetID, naiveAssetID,
                      TxID(nextTx), clientMSPID, OK)
         event == [ProvenanceEvent EXCEPT
                     !.EventType = "MATERIAL_CERTIFICATION_NAIVE",
                     !.AgentID = clientMSPID,
                     !.OnChainDataPayload = fullDataPayload,
                     !.MaterialType = materialType,
                     !.MaterialBatchID = materialBatchID,
                     !.SupplierID = supplierID]
         r == recordEvent(store, TxID(nextTx), event, now, fault)
         asset == [AssetID |-> naiveAssetID, Owner |-> clientMSPID,
                   CurrentLifecycleStage |-> "MATERIAL_CERTIFIED_NAIVE",
                   HistoryTxIDs |-> <<r.txID>>]
     IN  IF fault = "mspid" THEN store' = store /\ ret' = [o EXCEPT !.err = ErrMSPID]
         ELSE IF fault = "read" THEN store' = store /\ ret' = [o EXCEPT !.err = ErrRead]
         ELSE IF AssetExists(store, naiveAssetID)
         THEN store' = store /\ ret' = [o EXCEPT !.err = ErrExists]
         ELSE PutAsset(o, r, fault, asset)

\* CreatePrintJobStart
CreatePrintJobStart(assetID, machineID, materialBatchUsedID, designFileHash, buildJobID, offChainDataHash, clientMSPID, now, fault) ==
  /\ ret = NoRet
  /\ nextTx <= MaxTx
  /\ nextTx' = nextTx + 1
  /\ UNCHANGED <<concVars, harnessVars>>
  /\ LET o == Outcome("CreatePrintJobStart", assetID, assetID, TxID(nextTx),
                      clientMSPID, OK)
         event == [ProvenanceEvent EXCEPT
                     !.EventType = "PRINT_JOB_START",
                     !.AgentID = clientMSPID,
                     !.OffChainDataHash = offChainDataHash,
                     !.MachineID = machineID,
                     !.MaterialBatchUsedID = materialBatchUsedID,
                     !.DesignFileHash = designFileHash,
                     !.BuildJobID = buildJobID]
         r == recordEvent(store, TxID(nextTx), event, now, fault)
         asset == [AssetID |-> assetID, Owner |-> clientMSPID,
                   CurrentLifecycleStage |-> "IN_PRODUCTION",
                   HistoryTxIDs |-> <<r.txID>>]
     IN  IF fault = "mspid" THEN store' = store /\ ret' = [o EXCEPT !.err = ErrMSPID]
         ELSE IF fault = "read" THEN store' = store /\ ret' = [o EXCEPT !.err = ErrRead]
         ELSE IF AssetExists(store, assetID)
         THEN store' = store /\ ret' = [o EXCEPT !.err = ErrExists]
         ELSE PutAsset(o, r, fault, asset)

\* CreatePrintJobCompletion: read the asset, record the event, set the stage,
\* append the txID, put the asset back
CreatePrintJobCompletion(assetID, buildJobID, inspectionResult, offChainDataHash, clientMSPID, now, fault) ==
  /\ ret = NoRet
  /\ nextTx <= MaxTx
  /\ nextTx' = nextTx + 1
  /\ UNCHANGED <<concVars, harnessVars>>
  /\ LET o == Outcome("CreatePrintJobCompletion", assetID, assetID, TxID(nextTx),
                      clientMSPID, OK)
         a == ReadAsset(store, assetID, fault)
         event == [ProvenanceEvent EXCEPT
                     !.EventType = "PRINT_JOB_COMPLETION",
                     !.AgentID = clientMSPID,
                     !.OffChainDataHash = offChainDataHash,
                     !.BuildJobID = buildJobID,
                     !.PrimaryInspectionResult = inspectionResult]
         r == recordEvent(store, TxID(nextTx), event, now, fault)
         asset == [a.asset EXCEPT
                     !.CurrentLifecycleStage = "AWAITING_QA",
                     !.HistoryTxIDs = appendTxID(a.asset.HistoryTxIDs, r.txID)]
     IN  IF fault = "mspid" THEN store' = store /\ ret' = [o EXCEPT !.err = ErrMSPID]
         ELSE IF a.err # OK THEN store' = store /\ ret' = [o EXCEPT !.err = a.err]
         ELSE PutAsset(o, r, fault, asset)

\* faulty variant of qaStage: a result that is neither a pass nor empty
\* leaves the asset in a stage of its own
qaStage_Retest(testResult) ==
  IF testResult = "CERTIFIED_FIT_FOR_USE" THEN "CERTIFIED"
  ELSE IF testResult = "" THEN "REJECTED" ELSE "AWAITING_RETEST"

\* the stage CreateQACertify sets: decided by testResult
qaStage(testResult) == IF testResult = "CERTIFIED_FIT_FOR_USE" THEN "CERTIFIED" ELSE "REJECTED"

\* CreateQACertify: as CreatePrintJobCompletion, the stage decided by testResult
CreateQACertify(assetID, testStandard, testResult, certificateID, offChainDataHash, clientMSPID, now, fault) ==
  /\ ret = NoRet
  /\ nextTx <= MaxTx
  /\ nextTx' = nextTx + 1
  /\ UNCHANGED <<concVars, harnessVars>>
  /\ LET o == Outcome("CreateQACertify", assetID, assetID, TxID(nextTx),
                      clientMSPID, OK)
         a == ReadAsset(store, assetID, fault)
         event == [ProvenanceEvent EXCEPT
                     !.EventType = "QA_CERTIFY",
                     !.AgentID = clientMSPID,
                     !.OffChainDataHash = offChainDataHash,
                     !.TestStandardApplied = testStandard,
                     !.FinalTestResult = testResult,
                     !.CertificateID = certificateID]
         r == recordEvent(store, TxID(nextTx), event, now, fault)
         asset == [a.asset EXCEPT
                     !.CurrentLifecycleStage = qaStage(testResult),
                     !.HistoryTxIDs = appendTxID(a.asset.HistoryTxIDs, r.txID)]
     IN  IF fault = "mspid" THEN store' = store /\ ret' = [o EXCEPT !.err = ErrMSPID]
         ELSE IF a.err # OK THEN store' = store /\ ret' = [o EXCEPT !.err = a.err]
         ELSE PutAsset(o, r, fault, asset)

(* ------------------------ queries -------------------------------------- *)

\* a query of ReadAsset
QueryReadAsset(assetID, fault) ==
  /\ ret = NoRet
  /\ LET r == ReadAsset(store, assetID, fault)
     IN  ret' = [Outcome("ReadAsset", assetID, assetID, <<>>, "", r.err)
                   EXCEPT !.asset = r.asset]
  /\ UNCHANGED <<store, nextTx, concVars, harnessVars>>

\* faulty variant of QueryGetAssetHistory: a read that repairs, the entries
\* it skips are deleted from the event records
QueryGetAssetHistory_Prunes(assetID, fault, unreadable) ==
  /\ ret = NoRet
  /\ LET r == GetAssetHistory(store, assetID, fault, unreadable)
     IN  ret' = [Outcome("GetAssetHistory", assetID, assetID, <<>>, "", r.err)
                   EXCEPT !.history = r.history]
  /\ store' = [k \in DOMAIN store \ {EventKey(t) : t \in unreadable} |-> store[k]]
  /\ UNCHANGED <<nextTx, concVars, harnessVars>>

\* a query of GetAssetHistory; unreadable: the entries whose point read fails
QueryGetAssetHistory(assetID, fault, unreadable) ==
  /\ ret = NoRet
  /\ LET r == GetAssetHistory(store, assetID, fault, unreadable)
     IN  ret' = [Outcome("GetAssetHistory", assetID, assetID, <<>>, "", r.err)
                   EXCEPT !.history = r.history]
  /\ UNCHANGED <<store, nextTx, concVars, harnessVars>>

\* a query of AssetExists
QueryAssetExists(id, fault) ==
  /\ ret = NoRet
  /\ ret' = IF fault = "read"
            THEN Outcome("AssetExists", id, id, <<>>, "", ErrRead)
            ELSE [Outcome("AssetExists", id, id, <<>>, "", OK)
                    EXCEPT !.exists = AssetExists(store, id)]
  /\ UNCHANGED <<store, nextTx, concVars, harnessVars>>

\* the client takes the response of its call; it issues the next call after
Respond ==
  /\ ret # NoRet
  /\ ret' = NoRet
  /\ UNCHANGED <<store, nextTx, concVars, harnessVars>>

(* ------------------------ the specification ---------------------------- *)

Next ==
  \/ \E assetID \in ArgIds, d \in Descs, h \in Hashes, c \in MSPIDs, now \in Times,
        fault \in Faults :
       CreateMaterialCertification(assetID, d, d, d, h, c, now, fault)
  \/ \E assetID \in ArgIds, d \in Descs, h \in Hashes, c \in MSPIDs, now \in Times,
        fault \in Faults :
       CreateMaterialCertification_Naive(assetID, d, d, d, h, c, now, fault)
  \/ \E assetID \in ArgIds, d \in Descs, h \in Hashes, c \in MSPIDs, now \in Times,
        fault \in Faults :
       CreatePrintJobStart(assetID, d, d, d, d, h, c, now, fault)
  \/ \E assetID \in ArgIds, d \in Descs, h \in Hashes, c \in MSPIDs, now \in Times,
        fault \in Faults :
       CreatePrintJobCompletion(assetID, d, d, h, c, now, fault)
  \/ \E assetID \in ArgIds, d \in Descs, t \in TestResults, h \in Hashes, c \in MSPIDs,
        now \in Times, fault \in Faults :
       CreateQACertify(assetID, d, t, d, h, c, now, fault)
  \/ \E assetID \in ArgIds, fault \in {"none", "read"} : QueryReadAsset(assetID, fault)
  \/ \E assetID \in ArgIds, fault \in {"none", "read"}, unreadable \in {{}} \cup {{t} : t \in TxIDs} :
       QueryGetAssetHistory(assetID, fault, unreadable)
  \/ \E id \in ArgIds, fault \in {"none", "read"} : QueryAssetExists(id, fault)
  \/ Respond

Spec == Init /\ [][Next]_vars

(* ------------------------ the operations on every kind of argument ----- *)

\* The operations of Spec on plain asset ids, called with an evidence hash or
\* payload that is empty or not and with every kind of test result.

\* number of transactions in a run of SpecArgs
MaxArgTx == 3

\* evidence hashes or payloads, and test results
ArgHashes == {"", "h"}

ArgTestResults == {"", "PASS", "CERTIFIED_FIT_FOR_USE"}

\* faults of the environment during a run of SpecArgs
ArgFaults == {"none", "putAsset"}

NextArgs ==
  \/ nextTx <= MaxArgTx /\ \E assetID \in BaseIds, d \in Descs, h \in ArgHashes, c \in MSPIDs, now \in Times, fault \in ArgFaults :
       CreateMaterialCertification(assetID, d, d, d, h, c, now, fault)
  \/ nextTx <= MaxArgTx /\ \E assetID \in BaseIds, d \in Descs, h \in ArgHashes, c \in MSPIDs, now \in Times, fault \in ArgFaults :
       CreateMaterialCertification_Naive(assetID, d, d, d, h, c, now, fault)
  \/ nextTx <= MaxArgTx /\ \E assetID \in BaseIds, d \in Descs, h \in ArgHashes, c \in MSPIDs, now \in Times, fault \in ArgFaults :
       CreatePrintJobStart(assetID, d, d, d, d, h, c, now, fault)
  \/ nextTx <= MaxArgTx /\ \E assetID \in BaseIds, d \in Descs, h \in ArgHashes, c \in MSPIDs, now \in Times, fault \in ArgFaults :
       CreatePrintJobCompletion(assetID, d, d, h, c, now, fault)
  \/ nextTx <= MaxArgTx /\ \E assetID \in BaseIds, d \in Descs, t \in ArgTestResults, h \in ArgHashes, c \in MSPIDs, now \in Times, fault \in ArgFaults :
       CreateQACertify(assetID, d, t, d, h, c, now, fault)
  \/ Respond

SpecArgs == Init /\ [][NextArgs]_vars

(* ------------------------ concurrent transactions --------------------- *)

\* The operations above run one at a time.  When clients submit
\* transactions concurrently the ledger runs each invocation against the
\* committed state (Endorse), collects the keys it read, with their versions,
\* and the writes it made, and applies the writes later (Commit), in some
\* order, if no key the invocation read has been written since.

ErrConflict == "MVCC_READ_CONFLICT"

\* the functions the contract has: the exported methods of SmartContract
ContractFunctions ==
  { "CreateMaterialCertification", "CreateMaterialCertification_Naive", "CreatePrintJobStart",
    "CreatePrintJobCompletion", "CreateQACertify", "ReadAsset", "GetAssetHistory", "AssetExists" }

\* a call of a function the contract does not have is refused before any
\* code of the contract runs
ErrNoFunction == "function not found in contract SmartContract"

\* asset-id arguments of concurrent calls
ConcIds == BaseIds \cup {EventKey(TxID(2))}

\* faults of the environment during a concurrent invocation
ConcFaults == {"none", "putEvent"}

\* the invocations clients submit: function name and arguments
Calls ==
  [func : {"CreateMaterialCertification", "CreateMaterialCertification_Naive", "CreatePrintJobStart", "CreatePrintJobCompletion"}, assetID : ConcIds, testResult : {""}, data : Hashes]
    \cup [func : {"CreateQACertify"}, assetID : ConcIds, testResult : TestResults, data : Hashes]

\* the key under which the invocation keeps its asset
AssetKey(call) ==
  IF call.func = "CreateMaterialCertification_Naive" THEN NaiveKey(call.assetID) ELSE call.assetID

\* the event each function builds (string arguments "d"; data: the evidence
\* hash, or the payload of the naive creation)
CallEvent(call, clientMSPID) ==
  IF call.func = "CreateMaterialCertification"
  THEN [ProvenanceEvent EXCEPT !.EventType = "MATERIAL_CERTIFICATION_LIGHTWEIGHT", !.AgentID = clientMSPID, !.OffChainDataHash = call.data, !.MaterialType = "d", !.MaterialBatchID = "d", !.SupplierID = "d"]
  ELSE IF call.func = "CreateMaterialCertification_Naive"
  THEN [ProvenanceEvent EXCEPT !.EventType = "MATERIAL_CERTIFICATION_NAIVE", !.AgentID = clientMSPID, !.OnChainDataPayload = call.data, !.MaterialType = "d", !.MaterialBatchID = "d", !.SupplierID = "d"]
  ELSE IF call.func = "CreatePrintJobStart"
  THEN [ProvenanceEvent EXCEPT !.EventType = "PRINT_JOB_START", !.AgentID = clientMSPID, !.OffChainDataHash = call.data, !.MachineID = "d", !.MaterialBatchUsedID = "d", !.DesignFileHash = "d", !.BuildJobID = "d"]
  ELSE IF call.func = "CreatePrintJobCompletion"
  THEN [ProvenanceEvent EXCEPT !.EventType = "PRINT_JOB_COMPLETION", !.AgentID = clientMSPID, !.OffChainDataHash = call.data, !.BuildJobID = "d", !.PrimaryInspectionResult = "d"]
  ELSE [ProvenanceEvent EXCEPT !.EventType = "QA_CERTIFY", !.AgentID = clientMSPID, !.OffChainDataHash = call.data, !.TestStandardApplied = "d", !.FinalTestResult = call.testResult, !.CertificateID = "d"]

\* the Asset each function puts: a creation builds it, an update changes the
\* stage and the history of the one it read
CallAsset(call, clientMSPID, read, txID) ==
  IF call.func = "CreateMaterialCertification"
  THEN [AssetID |-> call.assetID, Owner |-> clientMSPID, CurrentLifecycleStage |-> "MATERIAL_CERTIFIED", HistoryTxIDs |-> <<txID>>]
  ELSE IF call.func = "CreateMaterialCertification_Naive"
  THEN [AssetID |-> NaiveKey(call.assetID), Owner |-> clientMSPID, CurrentLifecycleStage |-> "MATERIAL_CERTIFIED_NAIVE", HistoryTxIDs |-> <<txID>>]
  ELSE IF call.func = "CreatePrintJobStart"
  THEN [AssetID |-> call.assetID, Owner |-> clientMSPID, CurrentLifecycleStage |-> "IN_PRODUCTION", HistoryTxIDs |-> <<txID>>]
  ELSE IF call.func = "CreatePrintJobCompletion"
  THEN [read EXCEPT !.CurrentLifecycleStage = "AWAITING_QA", !.HistoryTxIDs = appendTxID(read.HistoryTxIDs, txID)]
  ELSE [read EXCEPT !.CurrentLifecycleStage = qaStage(call.testResult),
                    !.HistoryTxIDs = appendTxID(read.HistoryTxIDs, txID)]

\* faulty variant of ReadSet: the existence check of the naive creation is
\* made on the caller's id, not on the prefixed key
ReadSet_RawId(call) == {call.assetID}

\* faulty variant of ReadSet: the invocation reads nothing through the stub
ReadSet_Empty(call) == {}

\* the keys an invocation reads through the stub: a creation reads its key in
\* AssetExists, an update reads its asset in ReadAsset
ReadSet(call) == {AssetKey(call)}

\* one invocation run against the state st: its error, the keys it read and
\* the writes it made, in order
Invoke(st, txID, call, clientMSPID, now, fault) ==
  LET key == AssetKey(call)
      isUpdate == call.func \in {"CreatePrintJobCompletion", "CreateQACertify"}
      a == ReadAsset(st, call.assetID, fault)
      r == recordEvent(st, txID, CallEvent(call, clientMSPID), now, fault)
      asset == CallAsset(call, clientMSPID, a.asset, r.txID)
      writes == << [key |-> EventKey(txID), value |-> r.store[EventKey(txID)]],
                   [key |-> key, value |-> MarshalAsset(asset)] >>
      err == IF call.func \notin ContractFunctions THEN ErrNoFunction
             ELSE IF fault = "mspid" THEN ErrMSPID
             ELSE IF isUpdate /\ a.err # OK THEN a.err
             ELSE IF ~isUpdate /\ fault = "read" THEN ErrRead
             ELSE IF ~isUpdate /\ AssetExists(st, key) THEN ErrExists
             ELSE IF r.err # OK THEN r.err
             ELSE IF fault = "putAsset" THEN ErrPutState
             ELSE OK
  IN  [err |-> err, reads |-> ReadSet(call), writes |-> IF err = OK THEN writes ELSE <<>>]

\* the version of key, the empty string sequence when the key is not bound
VersionOf(ver, key) == IF key \in DOMAIN ver THEN ver[key] ELSE <<>>

\* the writes of a transaction applied in order
RECURSIVE ApplyWrites(_, _)
ApplyWrites(st, writes) ==
  IF writes = <<>> THEN st
  ELSE ApplyWrites(PutState(st, writes[1].key, writes[1].value), Tail(writes))

\* a client submits a call: the invocation runs against the committed state;
\* if it fails the transaction ends with its error, else it waits for commit
Endorse(call, clientMSPID, now, fault) ==
  /\ nextTx <= MaxTx
  /\ nextTx' = nextTx + 1
  /\ LET txID == TxID(nextTx)
         sim == Invoke(store, txID, call, clientMSPID, now, fault)
         readVersions == [k \in sim.reads |-> VersionOf(version, k)]
     IN  IF sim.err # OK
         THEN /\ status' = status @@ (txID :> [call |-> call, reads |-> readVersions, err |-> sim.err])
              /\ pending' = pending
         ELSE /\ pending' = pending \cup {[txID |-> txID, call |-> call, reads |-> readVersions, writes |-> sim.writes]}
              /\ status' = status
  /\ UNCHANGED <<store, version, ret, harnessVars>>

\* the ledger validates and commits a waiting transaction: its writes are
\* applied if every key it read still has the version it read, else the
\* transaction fails with a conflict and writes nothing
Commit(tx) ==
  /\ tx \in pending
  /\ pending' = pending \ {tx}
  /\ LET valid == \A k \in DOMAIN tx.reads : VersionOf(version, k) = tx.reads[k]
         written == {tx.writes[i].key : i \in 1..Len(tx.writes)}
     IN  IF valid
         THEN /\ store' = ApplyWrites(store, tx.writes)
              /\ version' = [k \in DOMAIN version \cup written |-> IF k \in written THEN tx.txID ELSE version[k]]
              /\ status' = status @@ (tx.txID :> [call |-> tx.call, reads |-> tx.reads, err |-> OK])
         ELSE /\ store' = store
              /\ version' = version
              /\ status' = status @@ (tx.txID :> [call |-> tx.call, reads |-> tx.reads, err |-> ErrConflict])
  /\ UNCHANGED <<nextTx, ret, harnessVars>>

NextConcurrent ==
  \/ \E call \in Calls, c \in MSPIDs, now \in Times, fault \in ConcFaults : Endorse(call, c, now, fault)
  \/ \E tx \in pending : Commit(tx)

SpecConcurrent == Init /\ [][NextConcurrent]_vars

(* ------------------------ the throughput harness ----------------------- *)

\* The harness submits creations to the ledger in batches: the calls of a
\* batch are in flight together, each is run by the ledger (EndorseIssued)
\* and committed (Commit) at its own pace, and the harness waits for them
\* with Promise.all.

\* the plan, scaled: counts and concurrency of the lightweight entry and of
\* a naive entry
LightCount == 3

LightConcurrency == 2

NaiveCount == 2

NaiveConcurrency == 2

throughputPayloads ==
  << [name |-> "Lightweight", size |-> 1, count |-> LightCount, concurrency |-> LightConcurrency],
     [name |-> "Naive (10KB)", size |-> 10 * 1024, count |-> NaiveCount, concurrency |-> NaiveConcurrency] >>

\* the two stages of the resource-utilisation program, scaled alike (count
\* is the program's totalTx)
resourceConfigs ==
  << [name |-> "Lightweight", size |-> 0, count |-> LightCount, concurrency |-> LightConcurrency],
     [name |-> "Naive (150KB)", size |-> 150 * 1024, count |-> NaiveCount, concurrency |-> NaiveConcurrency] >>

\* the configurations a program runs, in order
Plan(program) == IF program = "latency_test" THEN resourceConfigs ELSE throughputPayloads

\* the identity the harness connects with
mspId == "Org1MSP"

\* elapsed whole milliseconds a run can measure
ElapsedMs == {0, 1500}

\* differences endTime - startTime of the two readings of
\* process.hrtime.bigint(), in nanoseconds: a run of 0.4 s and one of 1.5 s
ElapsedNs == {400000000, 1500000000}

\* faulty variant of Throughput: the elapsed time is rounded up to the next
\* millisecond and second
Throughput_RoundedUp(program, txCount, elapsedNs) ==
  IF program = "latency_test"
  THEN [num |-> txCount, den |-> (elapsedNs + 999999999) \div 1000000000]
  ELSE [num |-> txCount * 1000, den |-> (elapsedNs + 999999) \div 1000000]

\* the throughput a successful run computes, kept as the quotient num / den:
\* BigInt division truncates, to whole milliseconds in part_000
\* (txCount / (totalTimeMs / 1000)) and to whole seconds in latency_test
\* (config.totalTx / totalTimeSec)
Throughput(program, txCount, elapsedNs) ==
  IF program = "latency_test"
  THEN [num |-> txCount, den |-> elapsedNs \div 1000000000]
  ELSE [num |-> txCount * 1000, den |-> elapsedNs \div 1000000]

\* the call of the warm-up
WarmupCall(now) ==
  [func |-> "CreateMaterialCertification", assetID |-> <<"WARMUP_BATCH_", now>>, testResult |-> "", data |-> "sha256"]

\* the transactions testThroughput of latency_test builds from a
\* configuration
ResourceTransactions(config, now) ==
  [k \in 1..config.count |->
     LET stripped == IF config.name = "Naive (150KB)" THEN "Naive(150KB)" ELSE config.name
         assetId == <<"RESOURCE_TEST_", stripped, "_", now, "_", ToString(k - 1)>>
     IN  IF config.size = 0
         THEN [func |-> "CreateMaterialCertification", assetID |-> assetId, testResult |-> "", data |-> "sha256"]
         ELSE [func |-> "CreateMaterialCertification_Naive", assetID |-> assetId, testResult |-> "",
               data |-> "base64:" \o ToString(config.size)]]

\* the transactions testThroughput builds: one per index, the function
\* chosen by payloadSize
Transactions(payloadSize, txCount, now) ==
  [k \in 1..txCount |->
     LET assetId == <<"TPS_", ToString(payloadSize), "_", now, "_", ToString(k - 1)>>
     IN  IF payloadSize = 0
         THEN [func |-> "CreateMaterialCertification", assetID |-> assetId, testResult |-> "", data |-> "sha256"]
         ELSE [func |-> "CreateMaterialCertification_Naive", assetID |-> assetId, testResult |-> "",
               data |-> "base64:" \o ToString(payloadSize)]]

\* faulty variant of slice: the chunk takes one element more
slice_OneMore(transactions, start, end) ==
  SubSeq(transactions, start + 1, IF end + 1 < Len(transactions) THEN end + 1 ELSE Len(transactions))

\* transactions.slice(start, end)
slice(transactions, start, end) ==
  SubSeq(transactions, start + 1, IF end < Len(transactions) THEN end ELSE Len(transactions))

\* faulty variant of PromiseAll: fulfilled as soon as one call is (Promise.any)
PromiseAll_Any(st, txs) ==
  IF \E t \in txs : t \in DOMAIN st /\ st[t].err = OK THEN "fulfilled"
  ELSE IF \A t \in txs : t \in DOMAIN st THEN "rejected" ELSE "pending"

\* faulty variant of PromiseAll: waits for every call and never rejects
\* (Promise.allSettled)
PromiseAll_Settled(st, txs) ==
  IF \A t \in txs : t \in DOMAIN st THEN "fulfilled" ELSE "pending"

\* Promise.all over the calls txs: rejected as soon as one has failed,
\* fulfilled when all have succeeded
\* faulty variant of PromiseAll: a rejected call does not reject the
\* combined promise, which stays pending
PromiseAll_NoReject(st, txs) ==
  IF \A t \in txs : t \in DOMAIN st /\ st[t].err = OK THEN "fulfilled" ELSE "pending"

PromiseAll(st, txs) ==
  IF \E t \in txs : t \in DOMAIN st /\ st[t].err # OK THEN "rejected"
  ELSE IF \A t \in txs : t \in DOMAIN st THEN "fulfilled" ELSE "pending"

\* the calls of the batch the harness is waiting for
CurrentChunk ==
  {t \in DOMAIN issued : issued[t].run = testIdx /\ issued[t].batch = batchNo}

\* the step of each program that follows the opening of the connection
FirstStep(program) ==
  IF program = "part_000" THEN "warmup" ELSE IF program = "latency_test" THEN "plan" ELSE "prepare"

\* main before its try block: newGrpcConnection opens the client and connect
\* wraps it in the gateway
mainConnects ==
  /\ pc = "start"
  /\ opens' = opens + 1
  /\ pc' = FirstStep(prog)
  /\ UNCHANGED <<store, nextTx, ret, concVars, testIdx, chunkStart, batchNo, results, issued, prog, closes, exitCode, histIdx>>

\* main before its try block fails: reading the TLS certificate fails and no
\* client is opened (opened = 0), or the client is opened and reading the
\* identity or the key fails (opened = 1); the exception leaves main before
\* the try block, no finally block runs, and main().catch sets the exit code
mainSetupFails(opened) ==
  /\ pc = "start"
  /\ opens' = opens + opened
  /\ pc' = "failed"
  /\ exitCode' = 1
  /\ UNCHANGED <<store, nextTx, ret, concVars, testIdx, chunkStart, batchNo, results, issued, prog, closes, histIdx>>

\* warmup: one lightweight creation
warmup ==
  /\ pc = "warmup"
  /\ \E now \in Times :
       issued' = issued @@ (TxID(nextTx) :> [run |-> 0, batch |-> 1, idx |-> 0, call |-> WarmupCall(now)])
  /\ nextTx' = nextTx + 1
  /\ pc' = "awaitWarmup"
  /\ UNCHANGED <<store, ret, concVars, testIdx, chunkStart, batchNo, results, runVars>>

\* the warm-up call has ended; its failure is logged and ignored
warmupSettled ==
  /\ pc = "awaitWarmup"
  /\ \A t \in DOMAIN issued : issued[t].run = 0 => t \in DOMAIN status
  /\ pc' = "plan"
  /\ UNCHANGED <<store, nextTx, ret, concVars, testIdx, chunkStart, batchNo, results, issued, runVars>>

\* main calls testThroughput for the next entry of the plan
testThroughput ==
  /\ pc = "plan"
  /\ testIdx <= Len(Plan(prog))
  /\ chunkStart' = 0
  /\ batchNo' = 0
  /\ pc' = "batch"
  /\ UNCHANGED <<store, nextTx, ret, concVars, testIdx, results, issued, runVars>>

\* one turn of the batch loop: the chunk is cut and all its calls are started
submitChunk ==
  /\ pc = "batch"
  /\ chunkStart < Plan(prog)[testIdx].count
  /\ \E now \in Times :
       LET test == Plan(prog)[testIdx]
           transactions == IF prog = "latency_test" THEN ResourceTransactions(test, now) ELSE Transactions(test.size, test.count, now)
           chunk == slice(transactions, chunkStart, chunkStart + test.concurrency)
           txOf(j) == TxID(nextTx + j - 1)
           jOf(t) == CHOOSE j \in 1..Len(chunk) : txOf(j) = t
       IN  /\ issued' = issued @@ [t \in {txOf(j) : j \in 1..Len(chunk)} |->
                                     [run |-> testIdx, batch |-> batchNo + 1, idx |-> chunkStart + jOf(t) - 1, call |-> chunk[jOf(t)]]]
           /\ nextTx' = nextTx + Len(chunk)
  /\ batchNo' = batchNo + 1
  /\ pc' = "await"
  /\ UNCHANGED <<store, ret, concVars, testIdx, chunkStart, results, runVars>>

\* await Promise.all(promises) returns: the loop goes on with the next chunk
chunkCompleted ==
  /\ pc = "await"
  /\ PromiseAll(status, CurrentChunk) = "fulfilled"
  /\ chunkStart' = chunkStart + Plan(prog)[testIdx].concurrency
  /\ pc' = "batch"
  /\ UNCHANGED <<store, nextTx, ret, concVars, testIdx, batchNo, results, issued, runVars>>

\* the loop is over: testThroughput computes tps from the two clock
\* readings, prints it, and (part_000) returns it to main, which pushes the
\* result
testThroughputReturns ==
  /\ pc = "batch"
  /\ chunkStart >= Plan(prog)[testIdx].count
  /\ \E elapsedNs \in ElapsedNs :
       results' = Append(results, [name |-> Plan(prog)[testIdx].name,
                                   count |-> Plan(prog)[testIdx].count,
                                   tps |-> Throughput(prog, Plan(prog)[testIdx].count, elapsedNs)])
  /\ testIdx' = testIdx + 1
  /\ pc' = "plan"
  /\ UNCHANGED <<store, nextTx, ret, concVars, chunkStart, batchNo, issued, runVars>>

\* faulty variant of testThroughputFails: the failed configuration is left
\* out of the results
testThroughputFails_NoRecord ==
  /\ pc = "await"
  /\ PromiseAll(status, CurrentChunk) = "rejected"
  /\ testIdx' = testIdx + 1
  /\ pc' = "plan"
  /\ UNCHANGED <<store, nextTx, ret, concVars, chunkStart, batchNo, results, issued, runVars>>

\* await Promise.all(promises) throws: the catch returns 0 and main pushes
\* the result (part_000), or the catch prints the failure and no throughput
\* (latency_test)
testThroughputFails ==
  /\ pc = "await"
  /\ PromiseAll(status, CurrentChunk) = "rejected"
  /\ results' = IF prog = "latency_test"
                THEN results
                ELSE Append(results, [name |-> Plan(prog)[testIdx].name,
                                      count |-> Plan(prog)[testIdx].count,
                                      tps |-> [num |-> 0, den |-> 1]])
  /\ testIdx' = testIdx + 1
  /\ pc' = "plan"
  /\ UNCHANGED <<store, nextTx, ret, concVars, chunkStart, batchNo, issued, runVars>>

\* the plan is done: the finally block closes the gateway and the client and
\* prints the results
mainFinally ==
  /\ pc = "plan"
  /\ testIdx > Len(Plan(prog))
  /\ closes' = closes + 1
  /\ pc' = "closed"
  /\ UNCHANGED <<store, nextTx, ret, concVars, testIdx, chunkStart, batchNo, results, issued, prog, opens, exitCode, histIdx>>

\* faulty variant of testThroughputThrows: main has no finally block, the
\* exception ends main with the connection open
testThroughputThrows_NoFinally ==
  /\ pc = "plan"
  /\ testIdx <= Len(Plan(prog))
  /\ exitCode' = 1
  /\ pc' = "closed"
  /\ UNCHANGED <<store, nextTx, ret, concVars, testIdx, chunkStart, batchNo, results, issued, prog, opens, closes, histIdx>>

\* the part of testThroughput outside its try block (the loop that builds the
\* transactions and their payloads) throws: the exception leaves main's try
\* block, the finally block closes the gateway and the client and prints the
\* results collected so far, and main().catch sets the exit code
testThroughputThrows ==
  /\ pc = "plan"
  /\ testIdx <= Len(Plan(prog))
  /\ closes' = closes + 1
  /\ exitCode' = 1
  /\ pc' = "closed"
  /\ UNCHANGED <<store, nextTx, ret, concVars, testIdx, chunkStart, batchNo, results, issued, prog, opens, histIdx>>

\* the ledger runs the invocation of a call the harness has issued
EndorseIssued(txID, now, fault) ==
  /\ txID \in DOMAIN issued
  /\ txID \notin DOMAIN status
  /\ \A tx \in pending : tx.txID # txID
  /\ LET call == issued[txID].call
         sim == Invoke(store, txID, call, mspId, now, fault)
         readVersions == [k \in sim.reads |-> VersionOf(version, k)]
     IN  IF sim.err # OK
         THEN /\ status' = status @@ (txID :> [call |-> call, reads |-> readVersions, err |-> sim.err])
              /\ pending' = pending
         ELSE /\ pending' = pending \cup {[txID |-> txID, call |-> call, reads |-> readVersions, writes |-> sim.writes]}
              /\ status' = status
  /\ UNCHANGED <<store, version, nextTx, ret, harnessVars>>

NextHarness ==
  \/ mainConnects
  \/ \E opened \in {0, 1} : mainSetupFails(opened)
  \/ warmup
  \/ warmupSettled
  \/ testThroughput
  \/ submitChunk
  \/ chunkCompleted
  \/ testThroughputReturns
  \/ testThroughputFails
  \/ mainFinally
  \/ testThroughputThrows
  \/ \E txID \in DOMAIN issued, now \in Times, fault \in ConcFaults : EndorseIssued(txID, now, fault)
  \/ \E tx \in pending : Commit(tx)

SpecHarness == Init /\ [][NextHarness]_vars

\* a step of the harness program itself: the event loop runs every
\* continuation that is ready
harnessStep ==
  \/ warmup
  \/ warmupSettled
  \/ testThroughput
  \/ submitChunk
  \/ chunkCompleted
  \/ testThroughputReturns
  \/ testThroughputFails
  \/ mainFinally

\* a step of the ledger on a call in flight: the call is endorsed or fails,
\* an endorsed call is committed or invalidated
ledgerStep ==
  \/ \E txID \in DOMAIN issued, now \in Times, fault \in ConcFaults : EndorseIssued(txID, now, fault)
  \/ \E tx \in pending : Commit(tx)

\* the harness on a ledger where every submitted call completes or fails
\* (by its deadline at the latest): while a continuation of the program is
\* ready or a call is in flight, the run does not stand still for ever
SpecHarnessFair == SpecHarness /\ WF_vars(harnessStep \/ ledgerStep)

\* the resource-utilisation program: the same batch loop without a warm-up
NextResource ==
  \/ mainConnects
  \/ \E opened \in {0, 1} : mainSetupFails(opened)
  \/ testThroughput
  \/ submitChunk
  \/ chunkCompleted
  \/ testThroughputReturns
  \/ testThroughputFails
  \/ mainFinally
  \/ testThroughputThrows
  \/ \E txID \in DOMAIN issued, now \in Times, fault \in ConcFaults : EndorseIssued(txID, now, fault)
  \/ \E tx \in pending : Commit(tx)

InitResource == InitProgram("latency_test")

SpecResource == InitResource /\ [][NextResource]_vars

(* ------------------------ the read harnesses --------------------------- *)

\* Two programs measure the latency of GetAssetHistory: read_test.js builds
\* one asset with CreatePrintJobStart and historyLength calls of
\* CreatePrintJobCompletion; the read harness kept in monitor_peer.sh goes
\* through historyLengthsToTest and builds each asset with
\* CreateMaterialCertification and length - 1 calls of AddHistoryEvent.
\* Every call is awaited before the next is made.

\* read_test.js: historyLength, scaled
historyLength == 3

\* monitor_peer.sh: historyLengthsToTest, scaled to two lengths
ShortHistory == 2

LongHistory == 3

historyLengthsToTest == <<ShortHistory, LongHistory>>

ReadPrograms == {"read_test", "monitor_peer"}

\* the target lengths the program goes through
ReadPlan(program) == IF program = "read_test" THEN <<historyLength>> ELSE historyLengthsToTest

\* the asset id main builds for a target length
ReadAssetId(program, length, now) ==
  IF program = "read_test" THEN <<"READ_TEST_ASSET_", now>>
  ELSE <<"READ_TEST_LEN_", ToString(length), "_", now>>

\* the first call of createLongHistoryAsset
CreationCall(program, assetId) ==
  IF program = "read_test"
  THEN [func |-> "CreatePrintJobStart", assetID |-> assetId, testResult |-> "", data |-> "dummy_hash_start"]
  ELSE [func |-> "CreateMaterialCertification", assetID |-> assetId, testResult |-> "", data |-> "initial_hash"]

\* the call of turn n (from 0) of the loop of createLongHistoryAsset
HistoryCall(program, assetId, n) ==
  [func |-> IF program = "read_test" THEN "CreatePrintJobCompletion" ELSE "AddHistoryEvent",
   assetID |-> assetId, testResult |-> "", data |-> "sha256:history_event_" \o ToString(n)]

\* the number of turns of the loop of createLongHistoryAsset
LoopTurns(program, length) == IF program = "read_test" THEN length ELSE length - 1

\* the transaction of call number n (0: the creation) of the current asset
CallNo(n) == CHOOSE t \in DOMAIN issued : issued[t].run = testIdx /\ issued[t].idx = n

\* the id of the asset the program is working on
CurrentAssetId == issued[CallNo(0)].call.assetID

\* the call createLongHistoryAsset is waiting for: the creation, or the call
\* of the current turn of the loop
AwaitedCall == CallNo(IF pc = "awaitCreate" THEN 0 ELSE histIdx + 1)

\* main calls createLongHistoryAsset for the next length: the creation is
\* submitted
createLongHistoryAsset ==
  /\ pc = "prepare"
  /\ testIdx <= Len(ReadPlan(prog))
  /\ \E now \in Times :
       issued' = issued @@ (TxID(nextTx) :>
                   [run |-> testIdx, batch |-> 0, idx |-> 0,
                    call |-> CreationCall(prog, ReadAssetId(prog, ReadPlan(prog)[testIdx], now))])
  /\ nextTx' = nextTx + 1
  /\ histIdx' = 0
  /\ pc' = "awaitCreate"
  /\ UNCHANGED <<store, ret, concVars, testIdx, chunkStart, batchNo, results, prog, opens, closes, exitCode>>

\* the creation has succeeded: the loop starts
assetCreated ==
  /\ pc = "awaitCreate"
  /\ AwaitedCall \in DOMAIN status
  /\ status[AwaitedCall].err = OK
  /\ pc' = "loop"
  /\ UNCHANGED <<store, nextTx, ret, concVars, testIdx, chunkStart, batchNo, results, issued, runVars>>

\* one turn of the loop of createLongHistoryAsset: the next event is
\* submitted
addHistoryEvent ==
  /\ pc = "loop"
  /\ histIdx < LoopTurns(prog, ReadPlan(prog)[testIdx])
  /\ issued' = issued @@ (TxID(nextTx) :>
                  [run |-> testIdx, batch |-> histIdx + 1, idx |-> histIdx + 1,
                   call |-> HistoryCall(prog, CurrentAssetId, histIdx)])
  /\ nextTx' = nextTx + 1
  /\ pc' = "awaitEvent"
  /\ UNCHANGED <<store, ret, concVars, testIdx, chunkStart, batchNo, results, runVars>>

\* the call of the turn has succeeded: the loop goes to its next turn
historyEventAdded ==
  /\ pc = "awaitEvent"
  /\ AwaitedCall \in DOMAIN status
  /\ status[AwaitedCall].err = OK
  /\ histIdx' = histIdx + 1
  /\ pc' = "loop"
  /\ UNCHANGED <<store, nextTx, ret, concVars, testIdx, chunkStart, batchNo, results, issued, prog, opens, closes, exitCode>>

\* faulty variant of createLongHistoryAssetFails: monitor_peer.sh gives up
\* like read_test.js instead of skipping the length
createLongHistoryAssetFails_Aborts ==
  /\ pc \in {"awaitCreate", "awaitEvent"}
  /\ AwaitedCall \in DOMAIN status
  /\ status[AwaitedCall].err # OK
  /\ closes' = closes + 1
  /\ exitCode' = 1
  /\ pc' = "closed"
  /\ UNCHANGED <<store, nextTx, ret, concVars, testIdx, chunkStart, batchNo, results, issued, prog, opens, histIdx>>

\* the awaited call has failed: createLongHistoryAsset returns false.
\* read_test.js throws, the finally block closes the connection and
\* main().catch sets the exit code; monitor_peer.sh skips the length
createLongHistoryAssetFails ==
  /\ pc \in {"awaitCreate", "awaitEvent"}
  /\ AwaitedCall \in DOMAIN status
  /\ status[AwaitedCall].err # OK
  /\ IF prog = "read_test"
     THEN /\ closes' = closes + 1
          /\ exitCode' = 1
          /\ pc' = "closed"
          /\ testIdx' = testIdx
     ELSE /\ testIdx' = testIdx + 1
          /\ pc' = "prepare"
          /\ UNCHANGED <<closes, exitCode>>
  /\ UNCHANGED <<store, nextTx, ret, concVars, chunkStart, batchNo, results, issued, prog, opens, histIdx>>

\* the loop is over: createLongHistoryAsset returns true
createLongHistoryAssetReturns ==
  /\ pc = "loop"
  /\ histIdx >= LoopTurns(prog, ReadPlan(prog)[testIdx])
  /\ pc' = "read"
  /\ UNCHANGED <<store, nextTx, ret, concVars, testIdx, chunkStart, batchNo, results, issued, runVars>>

\* contract.evaluateTransaction('GetAssetHistory', assetId): the query runs
\* against the committed state
evaluateGetAssetHistory(fault, unreadable) ==
  /\ pc = "read"
  /\ LET r == GetAssetHistory(store, CurrentAssetId, fault, unreadable)
     IN  ret' = [Outcome("GetAssetHistory", CurrentAssetId, CurrentAssetId, <<>>, "", r.err)
                   EXCEPT !.history = r.history]
  /\ pc' = "gotRead"
  /\ UNCHANGED <<store, nextTx, concVars, testIdx, chunkStart, batchNo, results, issued, runVars>>

\* what testRetrievalLatency of monitor_peer.sh returns: -1 when the query
\* failed; else the response is parsed and result.events.length is read, and
\* the response of GetAssetHistory is an array, which has no member events,
\* so the read of length throws and the catch returns -1
testRetrievalLatency(response, latencyMs) ==
  IF response.err # OK THEN -1
  ELSE LET result == [kind |-> "array", elements |-> response.history]
       IN  IF result.kind = "object" THEN latencyMs ELSE -1

\* the read has returned.  read_test.js prints the number of events or the
\* error; monitor_peer.sh pushes a record when the latency is positive.
\* Both go on to the next length, if any
testReadReturns ==
  /\ pc = "gotRead"
  /\ \E latencyMs \in ElapsedMs :
       results' = IF prog = "monitor_peer" /\ testRetrievalLatency(ret, latencyMs) > 0
                  THEN Append(results, [length |-> ReadPlan(prog)[testIdx], latencyMs |-> latencyMs])
                  ELSE results
  /\ ret' = NoRet
  /\ testIdx' = testIdx + 1
  /\ pc' = "prepare"
  /\ UNCHANGED <<store, nextTx, concVars, chunkStart, batchNo, issued, runVars>>

\* the lengths are done: the finally block closes the gateway and the client
readFinally ==
  /\ pc = "prepare"
  /\ testIdx > Len(ReadPlan(prog))
  /\ closes' = closes + 1
  /\ pc' = "closed"
  /\ UNCHANGED <<store, nextTx, ret, concVars, testIdx, chunkStart, batchNo, results, issued, prog, opens, exitCode, histIdx>>

NextRead ==
  \/ mainConnects
  \/ \E opened \in {0, 1} : mainSetupFails(opened)
  \/ createLongHistoryAsset
  \/ assetCreated
  \/ addHistoryEvent
  \/ historyEventAdded
  \/ createLongHistoryAssetFails
  \/ createLongHistoryAssetReturns
  \/ \E fault \in {"none", "read"}, unreadable \in {{}} \cup {{t} : t \in DOMAIN issued} :
       evaluateGetAssetHistory(fault, unreadable)
  \/ testReadReturns
  \/ readFinally
  \/ \E txID \in DOMAIN issued, now \in PeerTimes, fault \in ConcFaults : EndorseIssued(txID, now, fault)
  \/ \E tx \in pending : Commit(tx)

InitRead == \E program \in ReadPrograms : InitProgram(program)

SpecRead == InitRead /\ [][NextRead]_vars

(* ------------------------ the encoding of events ----------------------- *)

\* recordEvent and the decoding step of GetAssetHistory, applied to events
\* of every shape

\* a timestamp set by the code that built the event, before recordEvent
CarriedTimestamp == "2020-01-01T00:00:00Z"

\* the event values recordEvent can be given: every combination of optional
\* fields present (non-empty) and absent (empty), with and without a
\* timestamp already set
EventShapes ==
  { [f \in EventFields |->
       IF f = "EventType" THEN "QA_CERTIFY"
       ELSE IF f = "AgentID" THEN mspId
       ELSE IF f = "Timestamp" THEN ts
       ELSE IF f \in present THEN "v" ELSE ""] :
    present \in SUBSET OmitEmpty, ts \in {"", CarriedTimestamp} }

\* recordEvent is called with event while the peer's clock reads now
recordEventShape(event, now, fault) ==
  /\ ret = NoRet
  /\ nextTx = 1
  /\ LET r == recordEvent(store, TxID(nextTx), event, now, fault)
     IN  /\ store' = r.store
         /\ ret' = [Outcome("recordEvent", <<>>, EventKey(TxID(nextTx)), r.txID, event.AgentID, r.err)
                      EXCEPT !.now = now]
  /\ nextTx' = nextTx + 1
  /\ UNCHANGED <<concVars, harnessVars>>

\* the decoding step of GetAssetHistory: json.Unmarshal of the value under
\* an event key
decodeEvent(key) ==
  /\ ret.op = "recordEvent"
  /\ key \in DOMAIN store
  /\ ret' = [Outcome("UnmarshalEvent", <<>>, key, <<>>, "", OK)
               EXCEPT !.history = <<UnmarshalEvent(store[key])>>]
  /\ UNCHANGED <<store, nextTx, concVars, harnessVars>>

NextCodec ==
  \/ nextTx = 1 /\ \E event \in EventShapes, now \in PeerTimes, fault \in ConcFaults : recordEventShape(event, now, fault)
  \/ \E key \in DOMAIN store : decodeEvent(key)

SpecCodec == Init /\ [][NextCodec]_vars

(* ------------------------ vocabulary of the properties ----------------- *)

LightweightCreations == {"CreateMaterialCertification", "CreatePrintJobStart"}

Creations == LightweightCreations \cup {"CreateMaterialCertification_Naive"}

Updates == {"CreatePrintJobCompletion", "CreateQACertify"}

\* errors of the environment that end an invocation before its own checks
EnvErrors == {ErrMSPID, ErrRead}

\* the key holds a value in st
Bound(st, key) == key \in DOMAIN st

\* the value is the encoding of an Asset / of a ProvenanceEvent
IsAssetRecord(value) == AssetTags \subseteq DOMAIN value

IsEventRecord(value) == "eventType" \in DOMAIN value

\* the Asset a reader decodes from key in st
AssetAt(st, key) == UnmarshalAsset(st[key])

\* the rows of the transition table that start from an existing asset
TransitionTable ==
  { <<"IN_PRODUCTION", "AWAITING_QA">>,
    <<"AWAITING_QA", "CERTIFIED">>,
    <<"AWAITING_QA", "REJECTED">> }

TerminalStages == {"CERTIFIED", "REJECTED"}

\* the type of the event that an asset's first history entry resolves to
CreatedBy(st, key) ==
  LET h == AssetAt(st, key).HistoryTxIDs
  IN  IF IsAssetRecord(st[key]) /\ Len(h) >= 1 /\ EventKey(h[1]) \in DOMAIN st
      THEN UnmarshalEvent(st[EventKey(h[1])]).EventType
      ELSE ""

(* ------------------------ C1 ------------------------------------------- *)

\* C1: a lightweight creation call (CreateMaterialCertification or
\* CreatePrintJobStart) on an asset id that is already bound fails, with the
\* already-exists error unless the environment failed first, and leaves the
\* whole store (the original Asset, the events) as it was.
C1_DuplicateCreationFails ==
  [][ (ret'.op \in LightweightCreations /\ Bound(store, ret'.assetID))
        => /\ store' = store
           /\ ret'.err # OK
           /\ ret'.err \notin EnvErrors => ret'.err = ErrExists ]_vars

\* a CreatePrintJobStart was refused on an asset made by CreateMaterialCertification
C1_Witness ==
  /\ ret.op = "CreatePrintJobStart"
  /\ ret.err = ErrExists
  /\ AssetAt(store, ret.assetID).CurrentLifecycleStage = "MATERIAL_CERTIFIED"

(* ------------------------ C2 ------------------------------------------- *)

\* C2: every successful lifecycle operation makes the asset's historyTxIDs
\* exactly one entry longer: a creation leaves the single entry of its
\* transaction, an update appends its transaction id at the end and keeps
\* every earlier entry at its position.
C2_HistoryAppendOnly ==
  [][ (ret'.op \in Creations \cup Updates /\ ret'.err = OK)
        => LET old == IF ret'.op \in Updates
                      THEN AssetAt(store, ret'.key).HistoryTxIDs ELSE <<>>
               new == AssetAt(store', ret'.key).HistoryTxIDs
           IN  /\ Len(new) = Len(old) + 1
               /\ new[Len(new)] = ret'.txID
               /\ \A i \in 1..Len(old) : new[i] = old[i] ]_vars

\* a QA certification was appended to a history that already had two entries
C2_Witness ==
  /\ ret.op = "CreateQACertify"
  /\ ret.err = OK
  /\ Len(AssetAt(store, ret.key).HistoryTxIDs) = 3

(* ------------------------ C3 ------------------------------------------- *)

\* C3: in every reachable state every entry t of every stored asset's
\* historyTxIDs resolves to an event record under "EVENT_" + t.
C3_HistoryResolves ==
  \A key \in DOMAIN store :
    IsAssetRecord(store[key]) =>
      \A i \in 1..Len(AssetAt(store, key).HistoryTxIDs) :
        LET eventKey == EventKey(AssetAt(store, key).HistoryTxIDs[i])
        IN  eventKey \in DOMAIN store /\ IsEventRecord(store[eventKey])

(* ------------------------ C4 ------------------------------------------- *)

\* C4: every stage change an update operation makes on an asset is a row of
\* the transition table.
C4_TransitionTable ==
  [][ (ret'.op \in Updates /\ ret'.err = OK /\ IsAssetRecord(store[ret'.key]))
        => << AssetAt(store, ret'.key).CurrentLifecycleStage,
              AssetAt(store', ret'.key).CurrentLifecycleStage >> \in TransitionTable ]_vars

(* ------------------------ C5 ------------------------------------------- *)

\* C5: CERTIFIED and REJECTED are terminal: an asset in one of them keeps
\* its stage in every later state.
C5_TerminalStages ==
  [][ \A key \in DOMAIN store :
        (IsAssetRecord(store[key])
           /\ AssetAt(store, key).CurrentLifecycleStage \in TerminalStages)
          => AssetAt(store', key).CurrentLifecycleStage
               = AssetAt(store, key).CurrentLifecycleStage ]_vars

(* ------------------------ C6 ------------------------------------------- *)

\* C6: an event record, once written under "EVENT_" + txID, is never
\* overwritten or changed by a later operation.
C6_EventsImmutable ==
  [][ \A key \in DOMAIN store :
        IsEventRecord(store[key]) => store'[key] = store[key] ]_vars

(* ------------------------ C7 ------------------------------------------- *)

\* C7: lightweight and naive assets never collide: a naive creation is
\* never refused as duplicate because of an asset a lightweight creation
\* made, and a lightweight creation never because of a naive asset.
C7_DisjointNamespaces ==
  /\ (ret.op = "CreateMaterialCertification_Naive" /\ ret.err = ErrExists)
       => CreatedBy(store, ret.key)
            \notin {"MATERIAL_CERTIFICATION_LIGHTWEIGHT", "PRINT_JOB_START"}
  /\ (ret.op \in LightweightCreations /\ ret.err = ErrExists)
       => CreatedBy(store, ret.key) # "MATERIAL_CERTIFICATION_NAIVE"

(* ------------------------ C8 ------------------------------------------- *)

\* the stage each creation operation gives its asset
InitialStage(op) ==
  IF op = "CreateMaterialCertification" THEN "MATERIAL_CERTIFIED"
  ELSE IF op = "CreatePrintJobStart" THEN "IN_PRODUCTION"
  ELSE "MATERIAL_CERTIFIED_NAIVE"

\* C8: a successful creation leaves one event record under "EVENT_" + txID
\* and, under the asset key, an Asset owned by the caller, with the history
\* <<txID>> and the stage of the operation.
C8_CreationResult ==
  (ret.op \in Creations /\ ret.err = OK)
    => /\ EventKey(ret.txID) \in DOMAIN store
       /\ IsEventRecord(store[EventKey(ret.txID)])
       /\ IsAssetRecord(store[ret.key])
       /\ AssetAt(store, ret.key)
            = [ AssetID |-> ret.key, Owner |-> ret.caller,
                CurrentLifecycleStage |-> InitialStage(ret.op),
                HistoryTxIDs |-> <<ret.txID>> ]

(* ------------------------ C9 ------------------------------------------- *)

\* C9: CreatePrintJobCompletion and CreateQACertify on an asset id that is
\* not bound fail, with the not-found error unless the environment failed
\* first, and leave the store unchanged: no asset and no event is written.
C9_UpdateOfMissingAssetFails ==
  [][ (ret'.op \in Updates /\ ~Bound(store, ret'.assetID))
        => /\ store' = store
           /\ ret'.err # OK
           /\ ret'.err \notin EnvErrors => ret'.err = ErrNotExist ]_vars

\* a CreateQACertify was refused on an unbound id while other keys are bound
C9_Witness ==
  /\ ret.op = "CreateQACertify"
  /\ ret.err = ErrNotExist
  /\ ~Bound(store, ret.assetID)
  /\ DOMAIN store # {}

(* ------------------------ C10 ------------------------------------------ *)

\* C10: GetAssetHistory on an asset whose n history entries all resolve and
\* are read without failure returns exactly n events, the i-th being the
\* decoded record stored under "EVENT_" + historyTxIDs[i].
C10_HistoryInOrder ==
  [][ \A assetID \in ArgIds :
        LET h == AssetAt(store, assetID).HistoryTxIDs
        IN  ( /\ QueryGetAssetHistory(assetID, "none", {})
              /\ ret'.err = OK
              /\ \A i \in 1..Len(h) : EventKey(h[i]) \in DOMAIN store )
              => /\ Len(ret'.history) = Len(h)
                 /\ \A i \in 1..Len(h) :
                      ret'.history[i] = UnmarshalEvent(store[EventKey(h[i])]) ]_vars

\* the three events of a full lifecycle came back in the order of the calls
C10_Witness ==
  /\ ret.op = "GetAssetHistory"
  /\ ret.err = OK
  /\ Len(ret.history) = 3
  /\ ret.history[1].EventType = "PRINT_JOB_START"
  /\ ret.history[2].EventType = "PRINT_JOB_COMPLETION"
  /\ ret.history[3].EventType = "QA_CERTIFY"

(* ------------------------ C11 ------------------------------------------ *)

\* the positions of h whose point read fails or finds nothing
BadEntries(st, h, unreadable) ==
  {n \in 1..Len(h) : h[n] \in unreadable \/ EventKey(h[n]) \notin DOMAIN st}

WritesAsset(key) ==
  ret'.op \in Creations \cup Updates /\ ret'.err = OK /\ ret'.key = key

\* C12: ReadAsset and GetAssetHistory on an id that is not bound fail with
\* the not-found error; ReadAsset on a bound id succeeds and returns the
\* Asset as last persisted under the id: the Asset the last successful
\* creation or update of that id stored, unchanged by every step since.
C12_ReadReturnsPersisted ==
  [][ /\ \A id \in ArgIds :
           (QueryReadAsset(id, "none") /\ ~Bound(store, id)) => ret'.err = ErrNotExist
      /\ \A id \in ArgIds, unreadable \in SUBSET TxIDs :
           (QueryGetAssetHistory(id, "none", unreadable) /\ ~Bound(store, id))
             => ret'.err = ErrNotExist
      /\ \A id \in ArgIds :
           (QueryReadAsset(id, "none") /\ Bound(store, id))
             => ret'.err = OK /\ ret'.asset = AssetAt(store, id)
      /\ \A key \in DOMAIN store :
           (IsAssetRecord(store[key]) /\ ~WritesAsset(key))
             => AssetAt(store', key) = AssetAt(store, key) ]_vars

(* ------------------------ C13 ------------------------------------------ *)

\* C13: the assetID and the owner of a stored Asset never change: whatever
\* operation a step performs, by whatever caller, every Asset of the store
\* has the same assetID and owner after the step as before.
C13_IdentityImmutable ==
  [][ \A key \in DOMAIN store :
        IsAssetRecord(store[key])
          => /\ AssetAt(store', key).AssetID = AssetAt(store, key).AssetID
             /\ AssetAt(store', key).Owner = AssetAt(store, key).Owner ]_vars

(* ------------------------ C14 ------------------------------------------ *)

\* C14: an asset is never deleted: right after a successful creation the
\* key the creation bound exists and is readable, and a key that exists and
\* is readable before a step exists and is readable after it, whatever the
\* step does.
C14_NeverDeleted ==
  [][ /\ (ret'.op \in Creations /\ ret'.err = OK)
           => /\ AssetExists(store', ret'.key)
              /\ ReadAsset(store', ret'.key, "none").err = OK
      /\ \A key \in DOMAIN store :
           (AssetExists(store, key) /\ ReadAsset(store, key, "none").err = OK)
             => /\ AssetExists(store', key)
                /\ ReadAsset(store', key, "none").err = OK ]_vars

\* an asset was created, two updates followed, and the asset is read
C14_Witness ==
  /\ ret.op = "ReadAsset"
  /\ ret.err = OK
  /\ Len(ret.asset.HistoryTxIDs) = 3
  /\ AssetExists(store, ret.assetID)

(* ------------------------ C15 ------------------------------------------ *)

\* the entries of a sequence
Range(seq) == {seq[i] : i \in 1..Len(seq)}

\* the transactions that have ended and ran the functions funcs
Ended(funcs) == {t \in DOMAIN status : status[t].call.func \in funcs}

\* t and u are update transactions on one asset that both read the asset
\* before either wrote it: they read the same version of its key
ConcurrentUpdates(st, t, u) ==
  /\ t # u
  /\ st[t].call.func \in Updates /\ st[u].call.func \in Updates
  /\ st[t].reads = st[u].reads

\* C15: of two update transactions on the same asset that both read the
\* asset before either wrote it at most one reports success; an update that
\* reports success has its transaction id in the history of the stored
\* asset, and the end of the other transaction does not take it out.
C15_NoLostUpdate ==
  [][ /\ \A t \in DOMAIN status', u \in DOMAIN status' :
           ConcurrentUpdates(status', t, u) => ~(status'[t].err = OK /\ status'[u].err = OK)
      /\ \A t \in DOMAIN status' \ DOMAIN status :
           (status'[t].call.func \in Updates /\ status'[t].err = OK)
             => t \in Range(AssetAt(store', status'[t].call.assetID).HistoryTxIDs)
      /\ \A t \in DOMAIN status, u \in DOMAIN status' \ DOMAIN status :
           ( /\ ConcurrentUpdates(status', t, u)
             /\ status[t].err = OK
             /\ t \in Range(AssetAt(store, status[t].call.assetID).HistoryTxIDs) )
             => t \in Range(AssetAt(store', status[t].call.assetID).HistoryTxIDs) ]_vars

\* two updates read the same version of an asset: one committed, the other
\* failed with a conflict
C15_Witness ==
  \E t \in Ended(Updates), u \in Ended(Updates) :
    /\ t # u
    /\ status[t].reads = status[u].reads
    /\ status[t].err = OK
    /\ status[u].err = ErrConflict
    /\ status[t].call.func # status[u].call.func
    /\ AssetAt(store, status[t].call.assetID).HistoryTxIDs[2] = t

(* ------------------------ C16 ------------------------------------------ *)

\* t and u are creation transactions for one asset key
SameKeyCreations(st, t, u) ==
  /\ t # u
  /\ st[t].call.func \in Creations /\ st[u].call.func \in Creations
  /\ AssetKey(st[t].call) = AssetKey(st[u].call)

\* C16: of the creation transactions for one asset key, and so of two that
\* both made the existence check before either wrote, at most one reports
\* success; when it commits the key holds the Asset it built (its key as
\* assetID, its transaction id as the only history entry), and the end of a
\* concurrent creation for the key leaves that Asset as it is.
C16_OneCreationWins ==
  [][ /\ \A t \in DOMAIN status', u \in DOMAIN status' :
           SameKeyCreations(status', t, u) => ~(status'[t].err = OK /\ status'[u].err = OK)
      /\ \A t \in DOMAIN status' \ DOMAIN status :
           (status'[t].call.func \in Creations /\ status'[t].err = OK)
             => /\ AssetAt(store', AssetKey(status'[t].call)).AssetID = AssetKey(status'[t].call)
                /\ AssetAt(store', AssetKey(status'[t].call)).HistoryTxIDs = <<t>>
      /\ \A t \in DOMAIN status, u \in DOMAIN status' \ DOMAIN status :
           ( /\ SameKeyCreations(status', t, u)
             /\ status'[t].reads = status'[u].reads
             /\ status[t].err = OK )
             => store'[AssetKey(status[t].call)] = store[AssetKey(status[t].call)] ]_vars

\* two creations of one id both found it unbound: the material certification
\* committed, the print job start failed with a conflict
C16_Witness ==
  \E t \in Ended(Creations), u \in Ended(Creations) :
    /\ SameKeyCreations(status, t, u)
    /\ status[t].reads = status[u].reads
    /\ status[t].err = OK
    /\ status[u].err = ErrConflict
    /\ status[u].call.func = "CreatePrintJobStart"
    /\ AssetAt(store, AssetKey(status[t].call)).CurrentLifecycleStage = "MATERIAL_CERTIFIED"

(* ------------------------ C17 ------------------------------------------ *)

\* the calls of run r that are in flight: issued and not ended
InFlight(iss, st, r) == {t \in DOMAIN iss : iss[t].run = r /\ t \notin DOMAIN st}

\* C17: in a throughput run the harness starts a call only when every call
\* it started earlier in the run has ended (no call of batch k+1 starts
\* before all of batch k have finished), and at most as many calls of the
\* run are in flight as the concurrency of its configuration.
C17_BatchBarrier ==
  [][ /\ \A u \in DOMAIN issued' \ DOMAIN issued, t \in DOMAIN issued :
           issued[t].run = issued'[u].run => t \in DOMAIN status
      /\ \A r \in 1..Len(throughputPayloads) :
           Cardinality(InFlight(issued', status', r)) <= throughputPayloads[r].concurrency ]_vars

\* the second batch of the first run is in flight after the whole first
\* batch has succeeded
C17_Witness ==
  /\ \E u \in InFlight(issued, status, 1) : issued[u].batch = 2
  /\ Cardinality({t \in DOMAIN issued : issued[t].run = 1 /\ issued[t].batch = 1}) = LightConcurrency
  /\ \A t \in DOMAIN issued :
       (issued[t].run = 1 /\ issued[t].batch = 1) => (t \in DOMAIN status /\ status[t].err = OK)

(* ------------------------ C18 ------------------------------------------ *)

\* the calls of the throughput runs that have failed
FailedCalls == {t \in DOMAIN status : t \in DOMAIN issued /\ issued[t].run >= 1 /\ status[t].err # OK}

\* C18: once a call of a throughput run has failed, no call of a later
\* batch of that run is ever issued, the failed call is not issued again
\* (no other issued call has its function and arguments), and the result
\* the harness records for the run is the throughput 0.
C18_FailFast ==
  \A t \in FailedCalls :
    /\ \A u \in DOMAIN issued :
         issued[u].run = issued[t].run => issued[u].batch <= issued[t].batch
    /\ \A u \in DOMAIN issued : u # t => issued[u].call # issued[t].call
    /\ Len(results) >= issued[t].run => results[issued[t].run].tps = [num |-> 0, den |-> 1]

\* a call of the first batch of the first run failed: the run was reported
\* with throughput 0, its second batch was never issued, and the plan went on
\* to its end
C18_Witness ==
  /\ pc = "closed"
  /\ \E t \in FailedCalls : issued[t].run = 1 /\ issued[t].batch = 1
  /\ results[1].tps.num = 0
  /\ Cardinality({u \in DOMAIN issued : issued[u].run = 1}) = LightConcurrency
  /\ LightConcurrency < LightCount

(* ------------------------ C19 ------------------------------------------ *)

\* the plan entries that name the lightweight model and the naive model
LightweightEntries ==
  {r \in 1..Len(throughputPayloads) : throughputPayloads[r].name = "Lightweight"}

NaiveEntries == (1..Len(throughputPayloads)) \ LightweightEntries

\* C19: every call the harness issues for a lightweight entry of the plan
\* is a CreateMaterialCertification with a content hash, and every call it
\* issues for a naive entry is a CreateMaterialCertification_Naive with a
\* payload of the configured size.
C19_PlanDrivesOperations ==
  \A t \in DOMAIN issued :
    /\ issued[t].run \in LightweightEntries
         => /\ issued[t].call.func = "CreateMaterialCertification"
            /\ issued[t].call.data = "sha256"
    /\ issued[t].run \in NaiveEntries
         => /\ issued[t].call.func = "CreateMaterialCertification_Naive"
            /\ issued[t].call.data = "base64:" \o ToString(throughputPayloads[issued[t].run].size)

(* ------------------------ C20 ------------------------------------------ *)

\* the calls issued for run r
CallsOf(r) == {t \in DOMAIN issued : issued[t].run = r}

\* C20: when the run of a lightweight entry with N calls at concurrency C
\* has completed without failure, exactly N calls were issued for it, one per
\* synthesized asset id, in ceil(N/C) batches, and every synthesized asset id
\* is bound in the ledger to an Asset whose history has length 1.
C20_LightweightRunResult ==
  \A r \in LightweightEntries :
    (Len(results) >= r /\ results[r].tps.num > 0)
      => LET N == throughputPayloads[r].count
             C == throughputPayloads[r].concurrency
         IN  /\ Cardinality(CallsOf(r)) = N
             /\ Cardinality({issued[t].call.assetID : t \in CallsOf(r)}) = N
             /\ Cardinality({issued[t].batch : t \in CallsOf(r)}) = (N + C - 1) \div C
             /\ \A t \in CallsOf(r) :
                  /\ Bound(store, issued[t].call.assetID)
                  /\ IsAssetRecord(store[issued[t].call.assetID])
                  /\ Len(AssetAt(store, issued[t].call.assetID).HistoryTxIDs) = 1

(* ------------------------ C21 ------------------------------------------ *)

\* C21: when a read harness has prepared an asset for the target history
\* length L (createLongHistoryAsset has returned true) and calls
\* GetAssetHistory, and no read fails, the call succeeds and returns exactly
\* L events, the n-th being the event of the n-th call the harness submitted
\* for the asset.
C21_ReadReturnsTargetLength ==
  [][ evaluateGetAssetHistory("none", {})
        => /\ ret'.err = OK
           /\ Len(ret'.history) = ReadPlan(prog)[testIdx]
           /\ \A n \in 1..Len(ret'.history) :
                ret'.history[n].OffChainDataHash = issued[CallNo(n - 1)].call.data ]_vars

(* ------------------------ C22 ------------------------------------------ *)

C23_OneRecordPerConfiguration ==
  /\ Len(results) = testIdx - 1
  /\ Len(results) <= Len(throughputPayloads)
  /\ \A r \in 1..Len(results) :
       /\ results[r].name = throughputPayloads[r].name
       /\ results[r].count = throughputPayloads[r].count
       /\ (\E t \in FailedCalls : issued[t].run = r) => results[r].tps.num = 0
       /\ results[r].tps.num = 0 => \E t \in FailedCalls : issued[t].run = r
  /\ (pc = "closed" /\ exitCode = 0) => Len(results) = Len(throughputPayloads)

\* the plan has finished: the first configuration failed and has a record
\* with throughput 0, the second succeeded and has a record after it
C23_Witness ==
  /\ pc = "closed"
  /\ exitCode = 0
  /\ Len(results) = Len(throughputPayloads)
  /\ results[1].tps.num = 0
  /\ results[2].tps.num > 0
  /\ results[2].name = "Naive (10KB)"

(* ------------------------ C24 ------------------------------------------ *)

\* C24: decoding the stored encoding of an event and encoding the result
\* again gives the stored encoding, for every event shape (all optional
\* fields absent, all present, and every combination between); a member that
\* is absent from the stored encoding decodes to the empty field and stays
\* absent from the new encoding.
C24_EventRoundTrip ==
  /\ \A key \in DOMAIN store :
       IsEventRecord(store[key])
         => LET decoded == UnmarshalEvent(store[key])
            IN  /\ MarshalEvent(decoded) = store[key]
                /\ \A f \in OmitEmpty :
                     EventTags[f] \notin DOMAIN store[key]
                       => (decoded[f] = "" /\ EventTags[f] \notin DOMAIN MarshalEvent(decoded))
  /\ ret.op = "UnmarshalEvent" => MarshalEvent(ret.history[1]) = store[ret.key]

\* an event with every optional field absent was stored and decoded: the
\* stored encoding has the three mandatory members only, and the decoded
\* event encodes to it
C24_Witness ==
  /\ ret.op = "UnmarshalEvent"
  /\ DOMAIN store[ret.key] = {"eventType", "agentID", "timestamp"}
  /\ \A f \in OmitEmpty : ret.history[1][f] = ""
  /\ MarshalEvent(ret.history[1]) = store[ret.key]

(* ------------------------ C27 ------------------------------------------ *)

\* C27: the timestamp of every recorded event is the reading of the peer's
\* clock at the time recordEvent wrote it, whatever timestamp the event
\* value carried when it was handed to recordEvent: no stored timestamp is a
\* value that came with the event.
C27_TimestampLedgerAssigned ==
  /\ (ret.op = "recordEvent" /\ ret.err = OK) => store[ret.key]["timestamp"] = ret.now
  /\ \A key \in DOMAIN store :
       IsEventRecord(store[key])
         => ("timestamp" \in DOMAIN store[key] /\ store[key]["timestamp"] \in PeerTimes)

\* an event that carried a timestamp of its own, with every optional field
\* set, was recorded while the clock read T2: the stored timestamp is T2
C27_Witness ==
  /\ ret.op = "recordEvent"
  /\ ret.err = OK
  /\ ret.now = "T2"
  /\ store[ret.key]["timestamp"] = "T2"
  /\ DOMAIN store[ret.key] = {EventTags[f] : f \in EventFields}

(* ------------------------ C25 ------------------------------------------ *)

\* the step is a call of a creation or update operation during which the
\* write of the event fails
EventWriteFails(assetID, d, h, t, c, now) ==
  \/ CreateMaterialCertification(assetID, d, d, d, h, c, now, "putEvent")
  \/ CreateMaterialCertification_Naive(assetID, d, d, d, h, c, now, "putEvent")
  \/ CreatePrintJobStart(assetID, d, d, d, d, h, c, now, "putEvent")
  \/ CreatePrintJobCompletion(assetID, d, d, h, c, now, "putEvent")
  \/ CreateQACertify(assetID, d, t, d, h, c, now, "putEvent")

\* C25: when the event write inside a creation or update operation fails,
\* the operation returns an error (the error of the event write when its own
\* checks had passed) and writes no asset: the store, and so the stage and the
\* historyTxIDs of the asset, are exactly as before the call, and the id of a
\* creation stays unbound.
C25_FailsClosed ==
  [][ ret'.op \in Creations \cup Updates
        => \A assetID \in ArgIds, d \in Descs, h \in Hashes, t \in TestResults, c \in MSPIDs, now \in Times :
             EventWriteFails(assetID, d, h, t, c, now)
               => /\ ret'.err # OK
                  /\ store' = store
                  /\ (ret'.op \in Creations /\ ~Bound(store, ret'.key))
                       => (ret'.err = ErrPutEvent /\ ~Bound(store', ret'.key))
                  /\ (ret'.op \in Updates /\ Bound(store, ret'.key))
                       => /\ ret'.err = ErrPutEvent
                          /\ AssetAt(store', ret'.key) = AssetAt(store, ret'.key) ]_vars

\* the event write of a CreatePrintJobCompletion failed: the call returned
\* the error and the asset is still in production with its single entry
C25_Witness ==
  /\ ret.op = "CreatePrintJobCompletion"
  /\ ret.err = ErrPutEvent
  /\ AssetAt(store, ret.key).CurrentLifecycleStage = "IN_PRODUCTION"
  /\ Len(AssetAt(store, ret.key).HistoryTxIDs) = 1
  /\ ~Bound(store, EventKey(ret.txID))

(* ------------------------ C26 ------------------------------------------ *)

\* C26: a successful CreateQACertify sets the stage to CERTIFIED when its
\* testResult argument is "CERTIFIED_FIT_FOR_USE" and to REJECTED for every
\* other testResult (the empty string and "PASS" included), and the stage
\* after it is never the stage the asset had before it.
C26_QAResultDecidesStage ==
  [][ ret'.op = "CreateQACertify"
        => \A assetID \in BaseIds, d \in Descs, t \in ArgTestResults, h \in ArgHashes, c \in MSPIDs, now \in Times :
             (CreateQACertify(assetID, d, t, d, h, c, now, "none") /\ ret'.err = OK)
               => LET before == AssetAt(store, assetID).CurrentLifecycleStage
                      after == AssetAt(store', assetID).CurrentLifecycleStage
                  IN  /\ t = "CERTIFIED_FIT_FOR_USE" => after = "CERTIFIED"
                      /\ t # "CERTIFIED_FIT_FOR_USE" => after = "REJECTED"
                      /\ after # before ]_vars

(* ------------------------ C28 ------------------------------------------ *)

\* the event records of the store
EventRecords == {store[k] : k \in {q \in DOMAIN store : IsEventRecord(store[q])}}

\* the event was written by CreateMaterialCertification_Naive
IsNaiveEvent(e) == e.eventType = "MATERIAL_CERTIFICATION_NAIVE"

\* C28 as stated: every event of a lightweight operation has offChainDataHash
\* and no onChainDataPayload, every event of
\* CreateMaterialCertification_Naive has onChainDataPayload and no
\* offChainDataHash.
C28_HashXorPayload ==
  \A e \in EventRecords :
     IF IsNaiveEvent(e)
     THEN "onChainDataPayload" \in DOMAIN e /\ "offChainDataHash" \notin DOMAIN e
     ELSE "offChainDataHash" \in DOMAIN e /\ "onChainDataPayload" \notin DOMAIN e

\* one of the lightweight operations, called with the evidence hash h
LightweightCall(assetID, d, t, h, c, now, fault) ==
  \/ CreateMaterialCertification(assetID, d, d, d, h, c, now, fault)
  \/ CreatePrintJobStart(assetID, d, d, d, d, h, c, now, fault)
  \/ CreatePrintJobCompletion(assetID, d, d, h, c, now, fault)
  \/ CreateQACertify(assetID, d, t, d, h, c, now, fault)

\* C28, amended: no recorded event carries both an off-chain hash and an
\* on-chain payload. The event of a lightweight operation never has
\* onChainDataPayload, and it has offChainDataHash, with the argument's value,
\* exactly when the offChainDataHash argument is not empty; the event of
\* CreateMaterialCertification_Naive never has offChainDataHash, and it has
\* onChainDataPayload, with the argument's value, exactly when the
\* fullDataPayload argument is not empty.
C28_HashOrPayloadByArgument ==
  [][ (ret.op = "none" /\ ret'.op # "none" /\ Bound(store', EventKey(ret'.txID)))
        => LET e == store'[EventKey(ret'.txID)]
               Carries(member, h) == /\ (member \in DOMAIN e) = (h # "")
                                     /\ h # "" => e[member] = h
           IN  /\ \A f \in EventRecords : ~ ("offChainDataHash" \in DOMAIN f /\ "onChainDataPayload" \in DOMAIN f)
               /\ ~ ("offChainDataHash" \in DOMAIN e /\ "onChainDataPayload" \in DOMAIN e)
               /\ \A assetID \in BaseIds, d \in Descs, t \in ArgTestResults, h \in ArgHashes, c \in MSPIDs, now \in Times, fault \in ArgFaults :
                    /\ LightweightCall(assetID, d, t, h, c, now, fault)
                         => "onChainDataPayload" \notin DOMAIN e /\ Carries("offChainDataHash", h)
                    /\ CreateMaterialCertification_Naive(assetID, d, d, d, h, c, now, fault)
                         => "offChainDataHash" \notin DOMAIN e /\ Carries("onChainDataPayload", h) ]_vars

\* a lightweight operation called with an empty offChainDataHash has recorded
\* an event with neither member, beside a naive event that carries its
\* payload and an event that carries its hash
C28_Witness ==
  /\ ret.op = "CreateQACertify"
  /\ ret.err = OK
  /\ Bound(store, EventKey(ret.txID))
  /\ DOMAIN store[EventKey(ret.txID)] \cap {"offChainDataHash", "onChainDataPayload"} = {}
  /\ \E e \in EventRecords : IsNaiveEvent(e) /\ "onChainDataPayload" \in DOMAIN e
  /\ \E e \in EventRecords : ~ IsNaiveEvent(e) /\ "offChainDataHash" \in DOMAIN e

(* ------------------------ C29 ------------------------------------------ *)

\* C29: the throughput a successful run reports is a finite number greater
\* than 0, whatever the elapsed time, runs of less than a second included:
\* the divisor of the quotient is never 0 (and the quotient is N divided by
\* the elapsed seconds, to the millisecond).
C29_ThroughputFinite ==
  [][ results' # results
        => \A elapsedNs \in ElapsedNs :
             LET N == Plan(prog)[testIdx].count
                 tps == Throughput(prog, N, elapsedNs)
             IN  (testThroughputReturns /\ results'[Len(results')].tps = tps)
                   => /\ tps.den > 0
                      /\ tps.num > 0
                      /\ tps.num * (elapsedNs \div 1000000) = tps.den * N * 1000 ]_vars

(* ------------------------ C30 ------------------------------------------ *)

\* the number of batches of a configuration: ceil(N / C)
Batches(test) == (test.count + test.concurrency - 1) \div test.concurrency

\* C30: on a ledger where every submitted call completes or fails, every
\* throughput run terminates: a run never starts more than ceil(N/C) batches,
\* the program is never for ever inside testThroughput's batch loop (each
\* run returns, and its result is recorded by the same step), and the
\* program that has connected ends in the state after the finally block,
\* where the connection is closed and the results are printed.
C30_RunsTerminate ==
  /\ [](pc \in {"batch", "await"} => batchNo <= Batches(Plan(prog)[testIdx]))
  /\ []<>(pc \notin {"batch", "await"})
  /\ <>[](pc \in {"start", "failed", "closed"})

\* the plan has ended and the connection is closed after a run that took
\* all its ceil(N/C) batches and a run that failed in its first batch
C30_Witness ==
  /\ pc = "closed"
  /\ closes = 1
  /\ Len(results) = Len(throughputPayloads)
  /\ results[1].tps.num > 0
  /\ results[2].tps.num = 0
  /\ Cardinality({issued[t].batch : t \in {q \in DOMAIN issued : issued[q].run = 1}}) = Batches(throughputPayloads[1])
  /\ Batches(throughputPayloads[1]) > 1

(* ------------------------ C31 ------------------------------------------ *)

\* the calls the read harness has issued for the length of index r
CallsOfLength(r) == {t \in DOMAIN issued : issued[t].run = r}

\* C31: in the iterative read-latency harness (monitor_peer.sh) a length
\* whose preparation fails is skipped: the step that meets the failed call
\* adds no result record and goes on to the next length, the program is not
\* ended by it, and GetAssetHistory is evaluated only for a length all of
\* whose preparation calls succeeded; a result record is added only by the
\* step after a read that succeeded, for the length read; so the report
\* never has more records than lengths gone through.
C31_FailedLengthSkipped ==
  [][ prog = "monitor_peer"
        => /\ (pc \in {"awaitCreate", "awaitEvent"} /\ AwaitedCall \in DOMAIN status /\ status[AwaitedCall].err # OK /\ pc' # pc)
                => /\ results' = results
                   /\ ret' = ret
                   /\ testIdx' = testIdx + 1
                   /\ pc' = "prepare"
                   /\ exitCode' = 0
                   /\ closes' = 0
           /\ pc' \in {"read", "gotRead"}
                => \A t \in CallsOfLength(testIdx') : t \in DOMAIN status' /\ status'[t].err = OK
           /\ results' # results
                => /\ pc = "gotRead"
                   /\ ret.op = "GetAssetHistory"
                   /\ ret.err = OK
                   /\ \E latencyMs \in ElapsedMs :
                        results' = Append(results, [length |-> ReadPlan(prog)[testIdx], latencyMs |-> latencyMs])
           /\ Len(results') <= testIdx' - 1 ]_vars

\* monitor_peer.sh has gone through all its lengths, every preparation
\* failed at a call of its loop, and the connection is closed with a report
\* of fewer records than lengths
C31_Witness ==
  /\ prog = "monitor_peer"
  /\ pc = "closed"
  /\ exitCode = 0
  /\ testIdx = Len(historyLengthsToTest) + 1
  /\ Len(results) < Len(historyLengthsToTest)
  /\ \A r \in 1..Len(historyLengthsToTest) :
       \E t \in CallsOfLength(r) : t \in DOMAIN status /\ status[t].err # OK /\ issued[t].idx > 0

(* ------------------------ C32 ------------------------------------------ *)

\* the functions of the contract that only read
ReadFunctions == {"AssetExists", "ReadAsset", "GetAssetHistory"}

\* C32: AssetExists, ReadAsset and GetAssetHistory are read-only: whatever
\* the store and the argument, and whether the call succeeds, fails or skips
\* entries, the store after the call is the store before it (and no
\* transaction id is used up).
C32_ReadsAreReadOnly ==
  [][ ret'.op \in ReadFunctions => (store' = store /\ nextTx' = nextTx) ]_vars

\* GetAssetHistory has answered on a store of several records with a history
\* that is shorter than the asset's list: it skipped an entry
C32_Witness ==
  /\ ret.op = "GetAssetHistory"
  /\ ret.err = OK
  /\ Cardinality(DOMAIN store) >= 3
  /\ Len(ret.history) < Len(AssetAt(store, ret.key).HistoryTxIDs)

(* ------------------------ C33 ------------------------------------------ *)

\* C33: a successful creation or update changes only the key of its asset
\* and the key of its one new event: every other key is bound as before to
\* the value it had, the event key was not bound before, and every event
\* record written before is still there, unchanged.
C33_WritesOnlyAssetAndEvent ==
  [][ (ret.op = "none" /\ ret'.op \notin ReadFunctions \cup {"none"} /\ ret'.err = OK)
        => /\ \A k \in (DOMAIN store \cup DOMAIN store') \ {ret'.key, EventKey(ret'.txID)} :
                Bound(store, k) /\ Bound(store', k) /\ store'[k] = store[k]
           /\ ~ Bound(store, EventKey(ret'.txID))
           /\ \A k \in DOMAIN store : IsEventRecord(store[k]) => store'[k] = store[k] ]_vars

(* ------------------------ C34 ------------------------------------------ *)

\* C34: an event record is never treated as an asset: for the key of every
\* recorded event, AssetExists is false and ReadAsset fails with not-found,
\* and a call of AssetExists, ReadAsset, CreatePrintJobCompletion or
\* CreateQACertify on that key answers false, respectively fails with
\* not-found.
C34_EventNeverAsset ==
  [][ \A t \in TxIDs :
        (Bound(store, EventKey(t)) /\ IsEventRecord(store[EventKey(t)]))
          => /\ ~ AssetExists(store, EventKey(t))
             /\ ReadAsset(store, EventKey(t), "none").err = ErrNotExist
             /\ (ret.op = "none" /\ ret'.assetID = EventKey(t) /\ ret'.err # ErrRead /\ ret'.err # ErrMSPID)
                  => /\ ret'.op = "AssetExists" => ~ ret'.exists
                     /\ ret'.op \in {"ReadAsset", "CreatePrintJobCompletion", "CreateQACertify"}
                          => ret'.err = ErrNotExist ]_vars

(* ------------------------ C35 ------------------------------------------ *)

\* C35: in every reachable state every asset record stored under a key has
\* that key as its assetID member (for a naive asset both are "NAIVE_"
\* followed by the caller's id).
C35_AssetIDIsKey ==
  \A k \in DOMAIN store : IsAssetRecord(store[k]) => store[k].assetID = k

(* ------------------------ C36 ------------------------------------------ *)

\* the places where transaction id t is referenced: asset key and position
\* in the asset's historyTxIDs
ReferencesTo(st, t) ==
  {p \in {<<k, n>> : k \in DOMAIN st, n \in 1..MaxTx + 1} :
     /\ IsAssetRecord(st[p[1]])
     /\ p[2] <= Len(st[p[1]].historyTxIDs)
     /\ st[p[1]].historyTxIDs[p[2]] = t}

\* C36: in every reachable state every stored event record is referenced by
\* exactly one entry of exactly one asset's historyTxIDs: no event is an
\* orphan and no event is shared by two assets or listed twice.
C36_EventReferencedOnce ==
  \A k \in DOMAIN store :
     IsEventRecord(store[k]) => Cardinality(ReferencesTo(store, Tail(k))) = 1

(* ------------------------ C37 ------------------------------------------ *)

\* C37: when a throughput run has returned, with a throughput or with 0,
\* none of the calls it issued is still in flight: while a later
\* configuration runs, and when the connection is closed, every call of an
\* earlier run has completed or failed, and no call at all is in flight once
\* the connection is closed.
C37_NoCallInFlightAfterReturn ==
  /\ \A r \in 1..Len(Plan(prog)) : r < testIdx => InFlight(issued, status, r) = {}
  /\ pc = "closed" => \A t \in DOMAIN issued : t \in DOMAIN status

(* ------------------------ C38 ------------------------------------------ *)

\* C38: a ledger operation is deterministic in its inputs: when a peer has
\* endorsed an invocation, the execution of the same call with the same
\* caller and transaction id against the same store by another peer, whose
\* clock may read another time, yields the same writes, key for key and
\* value for value.
C38_DeterministicWrites ==
  [][ \A tx \in pending' \ pending :
        \A c \in MSPIDs, now \in PeerTimes :
           LET other == Invoke(store, tx.txID, tx.call, c, now, "none")
           IN  other.err = OK /\ other.writes = tx.writes ]_vars

(* ------------------------ C39 ------------------------------------------ *)

\* the stages the operations set
LifecycleStages ==
  {"MATERIAL_CERTIFIED", "MATERIAL_CERTIFIED_NAIVE", "IN_PRODUCTION", "AWAITING_QA", "CERTIFIED", "REJECTED"}

\* C39: in every reachable state the currentLifecycleStage of every stored
\* asset record is one of the six stages, its historyTxIDs is not empty, and
\* no transaction id occurs twice in it.
C39_AssetWellFormed ==
  \A k \in DOMAIN store :
     IsAssetRecord(store[k])
       => LET h == store[k].historyTxIDs
          IN  /\ store[k].currentLifecycleStage \in LifecycleStages
              /\ Len(h) >= 1
              /\ \A m, n \in 1..Len(h) : h[m] = h[n] => m = n

\* an asset that went through three operations, the last a QA that did not
\* pass
C39_Witness ==
  \E k \in DOMAIN store :
     /\ IsAssetRecord(store[k])
     /\ store[k].currentLifecycleStage = "REJECTED"
     /\ Len(store[k].historyTxIDs) = 3
     /\ ret.op = "CreateQACertify"
     /\ ret.key = k

====
